---- MODULE Spec2Model ----
(***************************************************************************)
(* Lookup-table queries of PhotonSim: the persisted (energy x angle x      *)
(* distance) photon tables and the point queries answered from them.       *)
(*                                                                         *)
(* Floating-point numbers are modelled as exact rationals <<n, d>> in      *)
(* lowest terms with d > 0, extended with the IEEE special values          *)
(* <<0, 0>> (NaN), <<1, 0>> (+inf) and <<-1, 0>> (-inf).  Rounding is not  *)
(* modelled.  numpy arrays are functions over 0 .. n-1.                    *)
(***************************************************************************)
EXTENDS Integers, Sequences, FiniteSets, TLC

----------------------------------------------------------------------------
(* Float arithmetic *)

Abs(x) == IF x < 0 THEN -x ELSE x

Sign(x) == IF x < 0 THEN -1 ELSE IF x > 0 THEN 1 ELSE 0

RECURSIVE GCD(_, _)
GCD(a, b) == IF b = 0 THEN a ELSE GCD(b, a % b)

Norm(n, d) ==
    IF d = 0 THEN <<Sign(n), 0>>
    ELSE LET g == GCD(Abs(n), Abs(d))
             s == Sign(d)
         IN  <<(s * n) \div g, (s * d) \div g>>

NaN == <<0, 0>>

PosInf == <<1, 0>>

NegInf == <<-1, 0>>

Float(i) == <<i, 1>>

Frac(n, d) == Norm(n, d)

IsNaN(x) == x = NaN

IsFinite(x) == x[2] # 0

FNeg(a) == <<-a[1], a[2]>>

\* the sum over the least common denominator
FAdd(a, b) ==
    IF ~IsFinite(a) /\ ~IsFinite(b)
    THEN IF a = b THEN a ELSE NaN
    ELSE IF ~IsFinite(a) THEN a
    ELSE IF ~IsFinite(b) THEN b
    ELSE LET g == GCD(a[2], b[2])
         IN  Norm(a[1] * (b[2] \div g) + b[1] * (a[2] \div g), (a[2] \div g) * b[2])

FSub(a, b) == FAdd(a, FNeg(b))

\* the product, cancelling across before multiplying
FMul(a, b) ==
    IF ~IsFinite(a) \/ ~IsFinite(b) THEN Norm(a[1] * b[1], a[2] * b[2])
    ELSE LET g1 == GCD(Abs(a[1]), b[2])
             g2 == GCD(Abs(b[1]), a[2])
         IN  Norm((a[1] \div g1) * (b[1] \div g2), (a[2] \div g2) * (b[2] \div g1))

\* a / b = a * (1 / b), with x / 0 = +-inf and 0 / 0 = NaN
FDiv(a, b) == FMul(a, Norm(b[2], b[1]))

FLt(a, b) ==
    /\ ~IsNaN(a)
    /\ ~IsNaN(b)
    /\ IF ~IsFinite(a) /\ ~IsFinite(b)
       THEN a[1] < b[1]
       ELSE a[1] * b[2] < b[1] * a[2]

FLe(a, b) == ~IsNaN(a) /\ ~IsNaN(b) /\ (a = b \/ FLt(a, b))

FGt(a, b) == FLt(b, a)

FGe(a, b) == FLe(b, a)

----------------------------------------------------------------------------
(* numpy / Python helpers *)

Size(arr) == Cardinality(DOMAIN arr)

Last(arr) == arr[Size(arr) - 1]

PyMin(a, b) == IF b < a THEN b ELSE a

PyMax(a, b) == IF b > a THEN b ELSE a

\* np.linspace(lo, hi, n + 1)
linspace(lo, hi, n) ==
    [i \in 0..n |-> FAdd(lo, FDiv(FMul(Float(i), FSub(hi, lo)), Float(n)))]

\* (edges[:-1] + edges[1:]) / 2
Midpoints(edges) ==
    [i \in 0..(Size(edges) - 2) |-> FDiv(FAdd(edges[i], edges[i + 1]), Float(2))]

\* edges[1:]
Tail1(arr) == [i \in 0..(Size(arr) - 2) |-> arr[i + 1]]

\* np.searchsorted(a, v), side='left': NaN sorts after every number
searchsorted(a, v) ==
    IF IsNaN(v) THEN Size(a)
    ELSE Cardinality({i \in DOMAIN a : FLt(a[i], v)})

\* np.interp(x, xp, fp) with fp = np.arange(len(xp)): piecewise linear in the
\* layer index, constant outside [xp[0], xp[-1]]
interp_index(x, xp) ==
    IF IsNaN(x) THEN NaN
    ELSE IF FLe(x, xp[0]) THEN Float(0)
    ELSE IF FGe(x, Last(xp)) THEN Float(Size(xp) - 1)
    ELSE LET hi == searchsorted(xp, x)
             lo == hi - 1
         IN  FAdd(Float(lo), FDiv(FSub(x, xp[lo]), FSub(xp[hi], xp[lo])))

\* np.clip(x, lo, hi) = minimum(maximum(x, lo), hi); NaN propagates
clip(x, lo, hi) ==
    IF IsNaN(x) THEN NaN
    ELSE LET m == IF FLt(x, lo) THEN lo ELSE x
         IN  IF FGt(m, hi) THEN hi ELSE m

\* int(x) for a finite float: truncation toward zero
int(x) ==
    IF x[1] >= 0 THEN x[1] \div x[2] ELSE -((-x[1]) \div x[2])

----------------------------------------------------------------------------
(* Bounds of the model *)

\* largest number of energy bins / energy layers of a table
MaxEnergyLayers == 2

\* largest number of angle bins and of distance bins of a table
MaxBins == 2

\* largest photon count stored in a bin
MaxVal == 1

\* longest coordinate sequence handed to query_batch
MaxBatch == 2

----------------------------------------------------------------------------
(* Program constants *)

\* np.pi, with angles measured in units of pi/12 rad
Pi == 12

\* the 10000.0 mm full scale of the distance axis of query_3d_table
FullScaleDistance == 10000

\* the 1.001 margin of np.clip in query_3d_table
ClipMargin == Frac(1001, 1000)

----------------------------------------------------------------------------
(* Tables on disk *)

\* the photon counts of a table of the given shape: bin (k, j, m) holds
\* (k + j + m + phase) mod (MaxVal + 1), so adjacent bins always differ
Counts(nE, nA, nD, phase) ==
    [k \in 0..(nE - 1) |-> [j \in 0..(nA - 1) |-> [m \in 0..(nD - 1) |->
        Float((k + j + m + phase) % (MaxVal + 1))]]]

\* the photon counts of a histogram with one populated bin per layer: layer k
\* holds (k + phase) mod (MaxVal + 1) photons in bin number (k + phase) mod size
HotBinCounts(nE, nA, nD, phase) ==
    [k \in 0..(nE - 1) |-> [j \in 0..(nA - 1) |-> [m \in 0..(nD - 1) |->
        IF j * nD + m = (k + phase) % (nA * nD)
        THEN Float((k + phase) % (MaxVal + 1))
        ELSE Float(0)]]]

\* energy of the i-th simulated sample (irregularly spaced, in MeV)
SimulatedEnergy(i) == 100 + 10 * i * (i + 3)

\* the data-derived (min, max) ranges of a histogram build
EnergyRangeIn == <<Float(100), Float(500)>>

AngleRangeIn == <<Float(1), Float(9)>>

DistanceRangeIn == <<Float(0), Float(8000)>>

\* sum of a 2D layer
RECURSIVE SumOver(_, _)
SumOver(f, S) ==
    IF S = {} THEN Float(0)
    ELSE LET x == CHOOSE y \in S : TRUE
         IN  FAdd(f[x], SumOver(f, S \ {x}))

LayerSum(layer) ==
    SumOver([j \in DOMAIN layer |-> SumOver(layer[j], DOMAIN layer[j])], DOMAIN layer)

\* the table divided by the sum of all its layers
NormalizeLayers_WholeTable(table) ==
    [k \in DOMAIN table |-> [j \in DOMAIN table[k] |-> [m \in DOMAIN table[k][j] |->
        FDiv(table[k][j][m],
             SumOver([h \in DOMAIN table |-> LayerSum(table[h])], DOMAIN table))]]]

\* table_3d[i, :, :] /= layer_sum for every layer whose sum is positive
NormalizeLayers(table) ==
    [k \in DOMAIN table |->
        LET layer_sum == LayerSum(table[k])
        IN  IF FGt(layer_sum, Float(0))
            THEN [j \in DOMAIN table[k] |-> [m \in DOMAIN table[k][j] |->
                     FDiv(table[k][j][m], layer_sum)]]
            ELSE table[k]]

\* energies of the layers of a stacked table, sorted
Energies(nE) == [i \in 0..(nE - 1) |-> Float(SimulatedEnergy(i))]

\* np.array(energies + [energies[-1] + (energies[-1] - energies[-2])])
DiscreteEnergyEdges(energies) ==
    LET n == Size(energies)
    IN  [i \in 0..n |->
            IF i < n THEN energies[i]
            ELSE FAdd(energies[n - 1], FSub(energies[n - 1], energies[n - 2]))]

NoArray == [i \in {} |-> NaN]

----------------------------------------------------------------------------
(* State *)

VARIABLES
    table_kind,        \* which artifact is on disk, hence which class loads it
    histogram,         \* the 3D values array, [energy][angle][distance]
    energy_edges, angle_edges, distance_edges,
    energy_centers, angle_centers, distance_centers,
    energy_range, angle_range, distance_range,
    energy_bins, angle_bins, distance_bins,
    op,                \* the method being answered, "idle" between calls
    args,              \* its arguments: <<energy, angle, distance>>
    outcome,           \* what the call did: a returned value or a raised exception
    sources,           \* the ROOT files handed to a table build, in argument order
    builder            \* the table-builder object and the state of its script

table_vars ==
    <<table_kind, histogram, energy_edges, angle_edges, distance_edges,
      energy_centers, angle_centers, distance_centers,
      energy_range, angle_range, distance_range,
      energy_bins, angle_bins, distance_bins>>

build_vars == <<sources, builder>>

vars == <<table_vars, op, args, outcome, build_vars>>

Returned(v) == [status |-> "returned", exc |-> "", value |-> v]

Raised(e) == [status |-> "raised", exc |-> e, value |-> NaN]

NoOutcome == [status |-> "none", exc |-> "", value |-> NaN]

\* PhotonTable3D.create_histogram + save_table: photon_histogram_3d.npy and
\* table_metadata.npz
InitRegularTable ==
    \E nE \in 1..MaxEnergyLayers, nA \in 1..MaxBins, nD \in 1..MaxBins,
       phase \in 0..MaxVal :
        /\ table_kind = "photon_histogram_3d"
        /\ histogram = Counts(nE, nA, nD, phase)
        /\ energy_range = EnergyRangeIn
        /\ angle_range = AngleRangeIn
        /\ distance_range = DistanceRangeIn
        /\ energy_edges = linspace(EnergyRangeIn[1], EnergyRangeIn[2], nE)
        /\ angle_edges = linspace(AngleRangeIn[1], AngleRangeIn[2], nA)
        /\ distance_edges = linspace(DistanceRangeIn[1], DistanceRangeIn[2], nD)
        /\ energy_centers = Midpoints(linspace(EnergyRangeIn[1], EnergyRangeIn[2], nE))
        /\ angle_centers = Midpoints(linspace(AngleRangeIn[1], AngleRangeIn[2], nA))
        /\ distance_centers =
               Midpoints(linspace(DistanceRangeIn[1], DistanceRangeIn[2], nD))
        /\ energy_bins = nE
        /\ angle_bins = nA
        /\ distance_bins = nD

\* DiscreteEnergyTableBuilder.create_3d_table_from_2d_stack + save_3d_table:
\* photon_histogram_3d_discrete.npy and table_metadata_discrete.npz
InitDiscreteTable ==
    \E nE \in 2..MaxEnergyLayers, nA \in 1..MaxBins, nD \in 1..MaxBins,
       phase \in 0..MaxVal :
        /\ table_kind = "photon_histogram_3d_discrete"
        /\ histogram = Counts(nE, nA, nD, phase)
        /\ energy_range = <<Energies(nE)[0], Last(Energies(nE))>>
        /\ angle_range = AngleRangeIn
        /\ distance_range = DistanceRangeIn
        /\ energy_edges = DiscreteEnergyEdges(Energies(nE))
        /\ angle_edges = linspace(AngleRangeIn[1], AngleRangeIn[2], nA)
        /\ distance_edges = linspace(DistanceRangeIn[1], DistanceRangeIn[2], nD)
        /\ energy_centers = Energies(nE)
        /\ angle_centers = Midpoints(linspace(AngleRangeIn[1], AngleRangeIn[2], nA))
        /\ distance_centers =
               Midpoints(linspace(DistanceRangeIn[1], DistanceRangeIn[2], nD))
        /\ energy_bins = nE
        /\ angle_bins = nA
        /\ distance_bins = nD

\* DiscreteEnergy3DTableBuilder.create_3d_table + save_3d_table + load_3d_table:
\* discrete_energy_3d_table.npz holds table_3d, energies, angle_bins, distance_bins
InitStackedTable ==
    \E nE \in 1..MaxEnergyLayers, nA \in 1..MaxBins, nD \in 1..MaxBins,
       phase \in 0..MaxVal :
        /\ table_kind = "discrete_energy_3d_table"
        /\ histogram = NormalizeLayers(HotBinCounts(nE, nA, nD, phase))
        /\ energy_centers = Energies(nE)
        /\ energy_bins = nE
        /\ angle_bins = nA
        /\ distance_bins = nD
        /\ energy_range = <<>>
        /\ angle_range = <<>>
        /\ distance_range = <<>>
        /\ energy_edges = NoArray
        /\ angle_edges = NoArray
        /\ distance_edges = NoArray
        /\ angle_centers = NoArray
        /\ distance_centers = NoArray

\* Python's None
None == <<>>

\* no table build is under way
NoBuild ==
    /\ sources = <<>>
    /\ builder = [class |-> "none", pc |-> "none"]

InitIdle ==
    /\ op = "idle"
    /\ args = <<>>
    /\ outcome = NoOutcome
    /\ NoBuild

----------------------------------------------------------------------------
(* Edge-based trilinear lookup: PhotonTableQuery.query,                    *)
(* PhotonTable3DQuery.query_interpolate, PhotonTable3D.query_interpolate   *)

\* c0 * (1 - t) + c1 * t
Lerp(c0, c1, t) == FAdd(FMul(c0, FSub(Float(1), t)), FMul(c1, t))

\* OutOfRange with the upper limits forgotten
OutOfRange_LowerOnly(energy, angle, distance) ==
    \/ FLt(energy, energy_range[1])
    \/ FLt(angle, angle_range[1])
    \/ FLt(distance, distance_range[1])

\* the "Check bounds" condition
OutOfRange(energy, angle, distance) ==
    \/ FLt(energy, energy_range[1]) \/ FGt(energy, energy_range[2])
    \/ FLt(angle, angle_range[1]) \/ FGt(angle, angle_range[2])
    \/ FLt(distance, distance_range[1]) \/ FGt(distance, distance_range[2])

\* np.searchsorted(edges, x) - 1, then max(0, min(idx, bins - 2))
EdgeIndex(edges, x, bins) == PyMax(0, PyMin(searchsorted(edges, x) - 1, bins - 2))

\* (x - edges[idx]) / (edges[idx + 1] - edges[idx])
EdgeFrac(edges, x, idx) ==
    FDiv(FSub(x, edges[idx]), FSub(edges[idx + 1], edges[idx]))

\* the body after the bounds check; nE, nA, nD are the bin counts the class
\* clamps with
TrilinearAtEdges(nE, nA, nD, energy, angle, distance) ==
    LET energy_idx == EdgeIndex(energy_edges, energy, nE)
        angle_idx == EdgeIndex(angle_edges, angle, nA)
        distance_idx == EdgeIndex(distance_edges, distance, nD)
        energy_frac == EdgeFrac(energy_edges, energy, energy_idx)
        angle_frac == EdgeFrac(angle_edges, angle, angle_idx)
        distance_frac == EdgeFrac(distance_edges, distance, distance_idx)
    IN  IF \/ energy_idx + 1 >= Size(histogram)
           \/ angle_idx + 1 >= Size(histogram[0])
           \/ distance_idx + 1 >= Size(histogram[0][0])
        THEN Raised("IndexError")
        ELSE LET c000 == histogram[energy_idx][angle_idx][distance_idx]
                 c001 == histogram[energy_idx][angle_idx][distance_idx + 1]
                 c010 == histogram[energy_idx][angle_idx + 1][distance_idx]
                 c011 == histogram[energy_idx][angle_idx + 1][distance_idx + 1]
                 c100 == histogram[energy_idx + 1][angle_idx][distance_idx]
                 c101 == histogram[energy_idx + 1][angle_idx][distance_idx + 1]
                 c110 == histogram[energy_idx + 1][angle_idx + 1][distance_idx]
                 c111 == histogram[energy_idx + 1][angle_idx + 1][distance_idx + 1]
                 c00 == Lerp(c000, c001, distance_frac)
                 c01 == Lerp(c010, c011, distance_frac)
                 c10 == Lerp(c100, c101, distance_frac)
                 c11 == Lerp(c110, c111, distance_frac)
                 c0 == Lerp(c00, c01, angle_frac)
                 c1 == Lerp(c10, c11, angle_frac)
             IN  Returned(Lerp(c0, c1, energy_frac))

\* PhotonTableQuery.query: clamps with self.histogram.shape
PhotonTableQuery_query(energy, angle, distance) ==
    IF OutOfRange(energy, angle, distance) THEN Returned(Float(0))
    ELSE TrilinearAtEdges(Size(histogram), Size(histogram[0]), Size(histogram[0][0]),
                          energy, angle, distance)

\* PhotonTable3DQuery.query_interpolate: clamps with len(self.*_centers)
PhotonTable3DQuery_query_interpolate(energy, angle, distance) ==
    IF OutOfRange(energy, angle, distance) THEN Returned(Float(0))
    ELSE TrilinearAtEdges(Size(Midpoints(energy_edges)), Size(Midpoints(angle_edges)),
                          Size(Midpoints(distance_edges)), energy, angle, distance)

\* PhotonTable3D.query_interpolate: 0.0 while no histogram is built, then
\* the lookup that clamps with self.*_bins
PhotonTable3D_query_interpolate(energy, angle, distance) ==
    IF histogram = None THEN Returned(Float(0))
    ELSE IF OutOfRange(energy, angle, distance) THEN Returned(Float(0))
    ELSE TrilinearAtEdges(energy_bins, angle_bins, distance_bins,
                          energy, angle, distance)

\* np.abs(centers - x)
AbsDiff(centers, x) ==
    [i \in DOMAIN centers |->
        LET diff == FSub(centers[i], x)
        IN  IF FLt(diff, Float(0)) THEN FSub(Float(0), diff) ELSE diff]

\* np.argmin: the first NaN if there is one, else the first smallest entry
argmin(arr) ==
    IF \E i \in DOMAIN arr : IsNaN(arr[i])
    THEN CHOOSE i \in DOMAIN arr : IsNaN(arr[i]) /\ \A h \in 0..(i - 1) : ~IsNaN(arr[h])
    ELSE CHOOSE i \in DOMAIN arr :
            /\ \A h \in DOMAIN arr : FLe(arr[i], arr[h])
            /\ \A h \in 0..(i - 1) : FLt(arr[i], arr[h])

\* PhotonTable3D.query_table of table_analysis: 0 while no histogram is
\* built, then the count of the nearest bin
PhotonTable3D_query_table(energy, angle, distance) ==
    IF histogram = None THEN Returned(Float(0))
    ELSE LET energy_idx == argmin(AbsDiff(energy_centers, energy))
             angle_idx == argmin(AbsDiff(angle_centers, angle))
             distance_idx == argmin(AbsDiff(distance_centers, distance))
         IN  IF \/ energy_idx >= energy_bins
                \/ angle_idx >= angle_bins
                \/ distance_idx >= distance_bins
             THEN Returned(Float(0))
             ELSE Returned(histogram[energy_idx][angle_idx][distance_idx])

\* PhotonTable3DQuery.query_nearest: the count of the bin whose centers are
\* nearest to the point
PhotonTable3DQuery_query_nearest(energy, angle, distance) ==
    LET energy_idx == argmin(AbsDiff(energy_centers, energy))
        angle_idx == argmin(AbsDiff(angle_centers, angle))
        distance_idx == argmin(AbsDiff(distance_centers, distance))
    IN  IF \/ energy_idx >= Size(energy_centers)
           \/ angle_idx >= Size(angle_centers)
           \/ distance_idx >= Size(distance_centers)
        THEN Returned(Float(0))
        ELSE Returned(histogram[energy_idx][angle_idx][distance_idx])

\* the indices of the items of a 3D array
Indices(arr) ==
    {<<k, j, m>> : k \in DOMAIN arr, j \in DOMAIN arr[0], m \in DOMAIN arr[0][0]}

\* arr[mask].mean(): nan (0 / 0) when the mask selects nothing
MeanOver(arr, mask) ==
    FDiv(SumOver([idx \in mask |-> arr[idx[1]][idx[2]][idx[3]]], mask),
         Float(Cardinality(mask)))

\* PhotonTable3DQuery.get_statistics
PhotonTable3DQuery_get_statistics ==
    Returned(
        [total_photons |->
            SumOver([idx \in Indices(histogram) |-> histogram[idx[1]][idx[2]][idx[3]]],
                    Indices(histogram)),
         non_zero_bins |->
            Cardinality({idx \in Indices(histogram) :
                            histogram[idx[1]][idx[2]][idx[3]] # Float(0)}),
         max_bin_count |->
            LET idx == CHOOSE i \in Indices(histogram) :
                            \A h \in Indices(histogram) :
                                FLe(histogram[h[1]][h[2]][h[3]],
                                    histogram[i[1]][i[2]][i[3]])
            IN  histogram[idx[1]][idx[2]][idx[3]],
         mean_bin_count |->
            MeanOver(histogram, {idx \in Indices(histogram) :
                                    FGt(histogram[idx[1]][idx[2]][idx[3]], Float(0))}),
         histogram_shape |-> <<Size(histogram), Size(histogram[0]),
                               Size(histogram[0][0])>>])

----------------------------------------------------------------------------
(* DiscreteEnergyTableQuery *)

\* FindBin with the weight measured between bin edges instead of bin centers
FindBin_EdgeWeights(edges, centers, x) ==
    IF FLe(x, edges[0]) THEN <<0, 0, Float(0)>>
    ELSE IF FGe(x, Last(edges))
    THEN <<Size(centers) - 1, Size(centers) - 1, Float(0)>>
    ELSE LET searched == searchsorted(Tail1(edges), x)
             idx_low == IF searched - 1 < 0 THEN 0 ELSE searched - 1
             idx_high == IF searched >= Size(centers) THEN Size(centers) - 1
                         ELSE searched
             low == edges[idx_low]
             high == edges[idx_high]
         IN  <<idx_low, idx_high,
               IF FGt(high, low) THEN FDiv(FSub(x, low), FSub(high, low))
               ELSE Float(0)>>

\* angle_low / angle_high and the weight between them: the bin centers at the
\* two indices, weight 0.0 when they coincide
BinWeight(centers, x, idx_low, idx_high) ==
    <<idx_low, idx_high,
      IF FGt(centers[idx_high], centers[idx_low])
      THEN FDiv(FSub(x, centers[idx_low]),
                FSub(centers[idx_high], centers[idx_low]))
      ELSE Float(0)>>

\* idx_high = searched, idx_low = idx_high - 1, both pulled into 0 .. n-1
BinPair(centers, x, searched) ==
    BinWeight(centers, x,
              IF searched - 1 < 0 THEN 0 ELSE searched - 1,
              IF searched >= Size(centers) THEN Size(centers) - 1 ELSE searched)

\* "Find angle bin" / "Find distance bin": <<idx_low, idx_high, weight>>
FindBin(edges, centers, x) ==
    IF FLe(x, edges[0]) THEN <<0, 0, Float(0)>>
    ELSE IF FGe(x, Last(edges))
    THEN <<Size(centers) - 1, Size(centers) - 1, Float(0)>>
    ELSE BinPair(centers, x, searchsorted(Tail1(edges), x))

\* "Bilinear interpolation" of a 2D slice between the bins a and d
Bilinear(table_2d, a, d) ==
    Lerp(Lerp(table_2d[a[1]][d[1]], table_2d[a[2]][d[1]], a[3]),
         Lerp(table_2d[a[1]][d[2]], table_2d[a[2]][d[2]], a[3]),
         d[3])

\* DiscreteEnergyTableQuery._query_2d_layer
query_2d_layer(energy_idx, angle_rad, distance_mm) ==
    Bilinear(histogram[energy_idx],
             FindBin(angle_edges, angle_centers, angle_rad),
             FindBin(distance_edges, distance_centers, distance_mm))

\* BlendLayers with the two weights exchanged
BlendLayers_Swapped(idx_low, idx_high, energy_weight, angle_rad, distance_mm) ==
    LET result_low == query_2d_layer(idx_low, angle_rad, distance_mm)
        result_high == query_2d_layer(idx_high, angle_rad, distance_mm)
    IN  IF energy_weight = Float(0) THEN result_low
        ELSE Lerp(result_high, result_low, energy_weight)

\* "Linear interpolation between energy layers": the low layer when the
\* weight is 0.0
Blend(result_low, result_high, energy_weight) ==
    IF energy_weight = Float(0) THEN result_low
    ELSE Lerp(result_low, result_high, energy_weight)

\* "Query both energy layers with 2D interpolation" and blend them
BlendLayers(idx_low, idx_high, energy_weight, angle_rad, distance_mm) ==
    Blend(query_2d_layer(idx_low, angle_rad, distance_mm),
          query_2d_layer(idx_high, angle_rad, distance_mm),
          energy_weight)

\* DiscreteEnergyTableQuery.query without the two clamping branches: the first
\* or last pair of layers is extrapolated
DiscreteEnergyTableQuery_query_NoClamp(energy_mev, angle_rad, distance_mm) ==
    LET n == Size(energy_centers)
        searched == searchsorted(energy_centers, energy_mev)
        energy_idx_high == PyMax(1, PyMin(searched, n - 1))
        energy_idx_low == energy_idx_high - 1
        energy_low == energy_centers[energy_idx_low]
        energy_high == energy_centers[energy_idx_high]
        energy_weight == FDiv(FSub(energy_mev, energy_low),
                              FSub(energy_high, energy_low))
    IN  IF IsNaN(energy_mev) THEN Raised("IndexError")
        ELSE Returned(BlendLayers(energy_idx_low, energy_idx_high,
                                  energy_weight, angle_rad, distance_mm))

\* "Handle energy interpolation/extrapolation":
\* <<energy_idx_low, energy_idx_high, energy_weight>>, or <<>> when
\* energy_centers[energy_idx_high] is out of bounds
EnergyBracket(energy_mev) ==
    IF FLe(energy_mev, energy_centers[0]) THEN <<0, 0, Float(0)>>
    ELSE IF FGe(energy_mev, Last(energy_centers))
    THEN <<Size(energy_centers) - 1, Size(energy_centers) - 1, Float(0)>>
    ELSE LET energy_idx_high == searchsorted(energy_centers, energy_mev)
             energy_idx_low == energy_idx_high - 1
         IN  IF energy_idx_high >= Size(energy_centers) THEN <<>>
             ELSE <<energy_idx_low, energy_idx_high,
                    FDiv(FSub(energy_mev, energy_centers[energy_idx_low]),
                         FSub(energy_centers[energy_idx_high],
                              energy_centers[energy_idx_low]))>>

\* the layers blended over a bracket, IndexError without one
QueryBracket(b, angle_rad, distance_mm) ==
    IF b = <<>> THEN Raised("IndexError")
    ELSE Returned(BlendLayers(b[1], b[2], b[3], angle_rad, distance_mm))

\* DiscreteEnergyTableQuery.query
DiscreteEnergyTableQuery_query(energy_mev, angle_rad, distance_mm) ==
    QueryBracket(EnergyBracket(energy_mev), angle_rad, distance_mm)

\* results = np.zeros(shape); flat_results = results.flatten(): ndarray.flatten
\* returns a copy, so the loop's writes to flat_results never reach results
ResultsAfterLoop(results, flat_results) == results

\* the loop over the flattened coordinates and the return of results
BatchLoop(results, each) ==
    IF \E i \in DOMAIN each : each[i].status = "raised"
    THEN Raised("IndexError")
    ELSE Returned(ResultsAfterLoop(results, [i \in DOMAIN each |-> each[i].value]))

\* DiscreteEnergyTableQuery.query_batch on equal-shaped 1-D sequences
DiscreteEnergyTableQuery_query_batch(energies, angles, distances) ==
    BatchLoop([i \in DOMAIN energies |-> Float(0)],
              [i \in DOMAIN energies |->
                  DiscreteEnergyTableQuery_query(energies[i], angles[i], distances[i])])

\* DiscreteEnergyTableQuery.get_available_energies: a copy of the energies
DiscreteEnergyTableQuery_get_available_energies ==
    Returned([i \in DOMAIN energy_centers |-> energy_centers[i]])

\* energy_centers.min() or .max()
Extreme(arr, Before(_, _)) ==
    IF \E i \in DOMAIN arr : IsNaN(arr[i]) THEN NaN
    ELSE arr[CHOOSE i \in DOMAIN arr : \A h \in DOMAIN arr : Before(arr[i], arr[h])]

\* DiscreteEnergyTableQuery.get_parameter_ranges
DiscreteEnergyTableQuery_get_parameter_ranges ==
    Returned([energy_range |-> <<Extreme(energy_centers, FLe),
                                 Extreme(energy_centers, FGe)>>,
              angle_range |-> <<angle_edges[0], Last(angle_edges)>>,
              distance_range |-> <<distance_edges[0], Last(distance_edges)>>])

----------------------------------------------------------------------------
(* DiscreteEnergy3DTableBuilder.query_3d_table *)

\* int(idx), min(int(idx) + 1, n - 1)
Corner(idx, n) == <<int(idx), PyMin(int(idx) + 1, n - 1)>>

query_3d_table(table_3d, energies, energy, angle_rad, distance_mm) ==
    LET energy_idx == clip(interp_index(energy, energies), Float(0),
                           FSub(Float(Size(energies)), ClipMargin))
        angle_idx == clip(FDiv(FMul(angle_rad, Float(angle_bins)), Float(Pi)),
                          Float(0), FSub(Float(angle_bins), ClipMargin))
        distance_idx == clip(FDiv(FMul(distance_mm, Float(distance_bins)),
                                  Float(FullScaleDistance)),
                             Float(0), FSub(Float(distance_bins), ClipMargin))
    IN  IF IsNaN(energy_idx) \/ IsNaN(angle_idx) \/ IsNaN(distance_idx)
        THEN Raised("ValueError")
        ELSE LET e == Corner(energy_idx, Size(energies))
                 a == Corner(angle_idx, angle_bins)
                 d == Corner(distance_idx, distance_bins)
                 we == FSub(energy_idx, Float(e[1]))
                 wa == FSub(angle_idx, Float(a[1]))
                 wd == FSub(distance_idx, Float(d[1]))
                 c00 == Lerp(table_3d[e[1]][a[1]][d[1]], table_3d[e[1]][a[1]][d[2]], wd)
                 c01 == Lerp(table_3d[e[1]][a[2]][d[1]], table_3d[e[1]][a[2]][d[2]], wd)
                 c10 == Lerp(table_3d[e[2]][a[1]][d[1]], table_3d[e[2]][a[1]][d[2]], wd)
                 c11 == Lerp(table_3d[e[2]][a[2]][d[1]], table_3d[e[2]][a[2]][d[2]], wd)
                 c0 == Lerp(c00, c01, wa)
                 c1 == Lerp(c10, c11, wa)
             IN  Returned(Lerp(c0, c1, we))

----------------------------------------------------------------------------
(* Query coordinates *)

\* the coordinates tried on an axis with the given nodes (bin edges or layer
\* energies): one below and one above the axis, every node, the quarter
\* points between adjacent nodes, and the IEEE special values
AxisPoints(nodes) ==
    {FSub(nodes[0], Float(1)), FAdd(Last(nodes), Float(1)), NaN, PosInf, NegInf}
    \cup {nodes[i] : i \in DOMAIN nodes}
    \cup {FAdd(nodes[i], FDiv(FMul(Float(q), FSub(nodes[i + 1], nodes[i])), Float(4))) :
            i \in 0..(Size(nodes) - 2), q \in 1..3}

\* the coordinates tried on a table object that has no axes yet
UnbuiltPoints == {Float(0), Float(200), NaN}

EnergyPoints ==
    IF table_kind = "none" THEN UnbuiltPoints
    ELSE IF table_kind = "photon_histogram_3d" THEN AxisPoints(energy_edges)
    ELSE AxisPoints(energy_centers)

AnglePoints ==
    IF table_kind = "none" THEN UnbuiltPoints
    ELSE IF table_kind = "discrete_energy_3d_table"
    THEN AxisPoints(linspace(Float(0), Float(Pi), angle_bins))
    ELSE AxisPoints(angle_edges)

DistancePoints ==
    IF table_kind = "none" THEN UnbuiltPoints
    ELSE IF table_kind = "discrete_energy_3d_table"
    THEN AxisPoints(linspace(Float(0), Float(FullScaleDistance), distance_bins))
    ELSE AxisPoints(distance_edges)

----------------------------------------------------------------------------
(* Actions *)

\* a call that empties the table it read
Call_Consuming(name, a, result) ==
    /\ op' = name
    /\ args' = a
    /\ outcome' = result
    /\ histogram' = [k \in DOMAIN histogram |-> [j \in DOMAIN histogram[k] |->
                        [m \in DOMAIN histogram[k][j] |-> Float(0)]]]
    /\ UNCHANGED <<table_kind, energy_edges, angle_edges, distance_edges,
                   energy_centers, angle_centers, distance_centers,
                   energy_range, angle_range, distance_range,
                   energy_bins, angle_bins, distance_bins, build_vars>>

\* a method of a query object: it answers from the table and assigns nothing
Call(name, a, result) ==
    /\ op' = name
    /\ args' = a
    /\ outcome' = result
    /\ UNCHANGED <<table_vars, build_vars>>

PhotonTableQueryQuery ==
    /\ op = "idle"
    /\ table_kind = "photon_histogram_3d"
    /\ \E energy \in EnergyPoints, angle \in AnglePoints, distance \in DistancePoints :
        Call("PhotonTableQuery.query", <<energy, angle, distance>>,
             PhotonTableQuery_query(energy, angle, distance))

PhotonTable3DQueryQueryInterpolate ==
    /\ op = "idle"
    /\ table_kind = "photon_histogram_3d"
    /\ \E energy \in EnergyPoints, angle \in AnglePoints, distance \in DistancePoints :
        Call("PhotonTable3DQuery.query_interpolate", <<energy, angle, distance>>,
             PhotonTable3DQuery_query_interpolate(energy, angle, distance))

PhotonTable3DQueryInterpolate ==
    /\ op = "idle"
    /\ table_kind \in {"photon_histogram_3d", "none"}
    /\ \E energy \in EnergyPoints, angle \in AnglePoints, distance \in DistancePoints :
        Call("PhotonTable3D.query_interpolate", <<energy, angle, distance>>,
             PhotonTable3D_query_interpolate(energy, angle, distance))

PhotonTable3DQueryTable ==
    /\ op = "idle"
    /\ table_kind \in {"photon_histogram_3d", "none"}
    /\ \E energy \in EnergyPoints, angle \in AnglePoints, distance \in DistancePoints :
        Call("PhotonTable3D.query_table", <<energy, angle, distance>>,
             PhotonTable3D_query_table(energy, angle, distance))

PhotonTable3DQueryQueryNearest ==
    /\ op = "idle"
    /\ table_kind = "photon_histogram_3d"
    /\ \E energy \in EnergyPoints, angle \in AnglePoints, distance \in DistancePoints :
        Call("PhotonTable3DQuery.query_nearest", <<energy, angle, distance>>,
             PhotonTable3DQuery_query_nearest(energy, angle, distance))

PhotonTable3DQueryGetStatistics ==
    /\ op = "idle"
    /\ table_kind = "photon_histogram_3d"
    /\ Call("PhotonTable3DQuery.get_statistics", <<>>, PhotonTable3DQuery_get_statistics)

DiscreteEnergyTableQueryGetAvailableEnergies ==
    /\ op = "idle"
    /\ table_kind = "photon_histogram_3d_discrete"
    /\ Call("DiscreteEnergyTableQuery.get_available_energies", <<>>,
            DiscreteEnergyTableQuery_get_available_energies)

DiscreteEnergyTableQueryGetParameterRanges ==
    /\ op = "idle"
    /\ table_kind = "photon_histogram_3d_discrete"
    /\ Call("DiscreteEnergyTableQuery.get_parameter_ranges", <<>>,
            DiscreteEnergyTableQuery_get_parameter_ranges)

DiscreteEnergyTableQueryQuery ==
    /\ op = "idle"
    /\ table_kind = "photon_histogram_3d_discrete"
    /\ \E energy \in EnergyPoints, angle \in AnglePoints, distance \in DistancePoints :
        Call("DiscreteEnergyTableQuery.query", <<energy, angle, distance>>,
             DiscreteEnergyTableQuery_query(energy, angle, distance))

\* a batch of 1 .. MaxBatch grid nodes: node (k0 + i, j, m) at position i
DiscreteEnergyTableQueryQueryBatch ==
    /\ op = "idle"
    /\ table_kind = "photon_histogram_3d_discrete"
    /\ \E n \in 1..MaxBatch, k0 \in DOMAIN energy_centers,
          j \in DOMAIN angle_centers, m \in DOMAIN distance_centers :
        LET es == [i \in 0..(n - 1) |-> energy_centers[(k0 + i) % Size(energy_centers)]]
            as == [i \in 0..(n - 1) |-> angle_centers[j]]
            ds == [i \in 0..(n - 1) |-> distance_centers[m]]
        IN  Call("DiscreteEnergyTableQuery.query_batch", <<es, as, ds>>,
                 DiscreteEnergyTableQuery_query_batch(es, as, ds))

DiscreteEnergy3DTableBuilderQuery3DTable ==
    /\ op = "idle"
    /\ table_kind = "discrete_energy_3d_table"
    /\ \E energy \in EnergyPoints, angle \in AnglePoints, distance \in DistancePoints :
        Call("DiscreteEnergy3DTableBuilder.query_3d_table", <<energy, angle, distance>>,
             query_3d_table(histogram, energy_centers, energy, angle, distance))

\* the call returns to its caller
Return ==
    /\ op # "idle"
    /\ op' = "idle"
    /\ args' = <<>>
    /\ outcome' = NoOutcome
    /\ UNCHANGED <<table_vars, build_vars>>

----------------------------------------------------------------------------
(* ROOT files handed to the table builds *)

\* largest number of ROOT files handed to one build
MaxSources == 3

\* largest number of ROOT files handed to a build that reads the trees
MaxTrees == 3

\* the angle and distance bin count the builders are constructed with (500 in
\* the table_generation scripts, 100 by default in the photon_table ones)
TableBins == 2

\* n_events = 10000  # Default
DefaultEvents == 10000

\* what a ROOT file can be: absent from disk; without the OpticalPhotons tree;
\* without the PhotonHist_AngleDistance histogram; with a tree of zero
\* entries; complete; complete with a histogram of another shape; complete
\* with a histogram of a single bin
SourceKinds ==
    {"missing", "no_tree", "no_hist", "zero_events", "ok", "other_shape", "single_bin"}

\* max_photons_per_event = 1000
max_photons_per_event == 1000

\* what a ROOT file written without the histogram can be: "crowded", a tree
\* with one event of max_photons_per_event + 1 photons, all but one of them
\* at the same angle and distance; "spread", a tree with one event of two
\* photons, the second one farther out
TreeOnlyKinds == {"crowded", "spread"}

\* hist.values().shape of the histogram stored in a file of the given kind
HistShape(kind) ==
    IF kind = "other_shape" THEN <<TableBins + 1, TableBins>>
    ELSE IF kind = "single_bin" THEN <<1, 1>>
    ELSE <<TableBins, TableBins>>

\* the photons simulated in the i-th file: none in a run of zero events
PhotonsIn(kind, i) ==
    IF kind = "zero_events" THEN 0
    ELSE IF kind = "crowded" THEN max_photons_per_event + 1
    ELSE IF kind = "spread" THEN 2
    ELSE 10 * (i + 1)

\* hist.values() of the i-th file: its photons in one bin
HistCounts(kind, i, shape) ==
    [j \in 0..(shape[1] - 1) |-> [m \in 0..(shape[2] - 1) |->
        IF j = i % shape[1] /\ m = i % shape[2] THEN Float(PhotonsIn(kind, i))
        ELSE Float(0)]]

\* the opening angle and the distance shared by the photons of the tree of
\* the i-th file
TreeAngle(i) == Float(3 + 6 * (i % 2))

TreeDistance(i) == Float(5 + 10 * (i % 2))

\* the distance of the photon of a "spread" tree that lies farther out
FarDistance == Float(25)

\* n photons of one event that share an opening angle and a distance
Photons(n, angle, distance) == [n |-> n, angle |-> angle, distance |-> distance]

\* the events of the tree of the i-th file that hold photons, each one the
\* sequence of its groups of photons
TreeEvents(kind, i) ==
    IF kind \in {"missing", "no_tree", "zero_events"} THEN <<>>
    ELSE IF kind = "crowded"
    THEN <<<<Photons(max_photons_per_event, TreeAngle(i), TreeDistance(i)),
             Photons(1, TreeAngle(i + 1), TreeDistance(i + 1))>>>>
    ELSE IF kind = "spread"
    THEN <<<<Photons(1, TreeAngle(i), TreeDistance(i)),
             Photons(1, TreeAngle(i + 1), FarDistance)>>>>
    ELSE <<<<Photons(PhotonsIn(kind, i), TreeAngle(i), TreeDistance(i))>>>>

\* the (low, high) limits of the angle axis and of the distance axis of a
\* histogram with geometry g
HistAngleRange(g) ==
    IF g = 0 THEN <<Float(0), Float(Pi)>> ELSE <<Float(-4), Float(8)>>

HistDistanceRange(g) ==
    IF g = 0 THEN <<Float(0), Float(20)>> ELSE <<Float(0), Float(12)>>

\* hist.axes[0].edges(), hist.axes[1].edges()
HistEdges(g, shape) ==
    <<linspace(HistAngleRange(g)[1], HistAngleRange(g)[2], shape[1]),
      linspace(HistDistanceRange(g)[1], HistDistanceRange(g)[2], shape[2])>>

\* the i-th ROOT file: <energy>MeV/output.root with the energy 100 + 10 i;
\* num_entries is -1 when the file holds no OpticalPhotons tree
SourceFile(kind, i, g) ==
    [kind |-> kind,
     energy |-> 100 + 10 * i,
     exists |-> kind # "missing",
     num_entries |-> IF kind \in {"missing", "no_tree"} THEN -1
                     ELSE IF kind = "zero_events" THEN 0 ELSE 10,
     has_hist |-> kind \notin {"missing", "no_hist"} \cup TreeOnlyKinds,
     counts |-> HistCounts(kind, i, HistShape(kind)),
     edges |-> HistEdges(g, HistShape(kind)),
     photons |-> PhotonsIn(kind, i),
     angle |-> TreeAngle(i),
     distance |-> TreeDistance(i),
     events |-> TreeEvents(kind, i)]

----------------------------------------------------------------------------
(* numpy arrays of the builds *)

\* np.zeros((n, a, d))
Zeros(n, a, d) ==
    [k \in 0..(n - 1) |-> [j \in 0..(a - 1) |-> [m \in 0..(d - 1) |-> Float(0)]]]

\* arr.shape of a 2D array
Shape2(arr) == <<Size(arr), Size(arr[0])>>

\* whether table[idx] = arr is accepted: numpy broadcasts a dimension of
\* size 1 and raises ValueError for any other mismatch
Broadcastable(shape, a, d) ==
    /\ shape[1] = a \/ shape[1] = 1
    /\ shape[2] = d \/ shape[2] = 1

\* arr as table[idx] = arr stores it in a slice of shape (a, d)
Broadcast(arr, a, d) ==
    [j \in 0..(a - 1) |-> [m \in 0..(d - 1) |->
        arr[IF Size(arr) = 1 THEN 0 ELSE j][IF Size(arr[0]) = 1 THEN 0 ELSE m]]]

\* arr / n elementwise, n a Python int: x / 0 is +-inf and 0 / 0 is nan
DivideBy(arr, n) ==
    [j \in DOMAIN arr |-> [m \in DOMAIN arr[j] |-> FDiv(arr[j][m], Float(n))]]

\* arr.shape of a 3D array
Shape3(arr) == <<Size(arr), Size(arr[0]), Size(arr[0][0])>>

\* np.array(values) of a list of Python floats
Floats(values) == [i \in DOMAIN values |-> Float(values[i])]

\* arr.ravel(): the items of a 3D array in C order
Ravel(arr) ==
    [k \in 0..(Size(arr) * Size(arr[0]) * Size(arr[0][0]) - 1) |->
        arr[k \div (Size(arr[0]) * Size(arr[0][0]))]
           [(k \div Size(arr[0][0])) % Size(arr[0])]
           [k % Size(arr[0][0])]]

\* np.save of a 3D array: the header with the shape, then the items
Npy3(arr) == [shape |-> Shape3(arr), data |-> Ravel(arr)]

\* np.save of a 1D array
Npy1(arr) == [shape |-> <<Size(arr)>>, data |-> arr]

\* np.save of a Python number, a 0-d array
Npy0(x) == [shape |-> <<>>, data |-> [i \in {0} |-> x]]

\* np.save of a Python pair, a 1D array of two items
NpyPair(pair) == Npy1([i \in 0..1 |-> pair[i + 1]])

\* data.reshape(shape) in Fortran order
Reshape_FortranOrder(data, shape) ==
    [k \in 0..(shape[1] - 1) |-> [j \in 0..(shape[2] - 1) |-> [m \in 0..(shape[3] - 1) |->
        data[k + shape[1] * (j + shape[2] * m)]]]]

\* data.reshape(shape) of the items of a 3D array, in C order
Reshape(data, shape) ==
    [k \in 0..(shape[1] - 1) |-> [j \in 0..(shape[2] - 1) |-> [m \in 0..(shape[3] - 1) |->
        data[(k * shape[2] + j) * shape[3] + m]]]]

\* np.load of a saved array
np_load(file) ==
    IF Len(file.shape) = 3 THEN Reshape(file.data, file.shape)
    ELSE IF Len(file.shape) = 1 THEN file.data
    ELSE file.data[0]

\* list(range(energy_min, energy_max + 1, energy_step))
Range(energy_min, energy_max, energy_step) ==
    [i \in 0..((energy_max - energy_min) \div energy_step) |->
        energy_min + i * energy_step]

\* statements in sequence: the value the first part computes, handed to the
\* part that follows
Then(first, Rest(_)) == CHOOSE result \in {Rest(value) : value \in {first}} : TRUE

\* the file <data_dir>/<energy>MeV/output.root
FileOf(energy) == sources[CHOOSE i \in DOMAIN sources : sources[i].energy = energy]

\* the bin np.histogram2d puts x in: bins are closed on the left, the last
\* one on both sides; -1 for a value outside the range
BinOf(edges, x) ==
    IF x = Last(edges) THEN Size(edges) - 2
    ELSE IF FLt(x, edges[0]) \/ FGt(x, Last(edges)) \/ IsNaN(x) THEN -1
    ELSE Cardinality({i \in DOMAIN edges : FLe(edges[i], x)}) - 1

\* the range np.histogram2d bins over: a range of no width is widened by 0.5
\* on both sides
OuterEdges(range) ==
    IF range[1] = range[2]
    THEN <<FSub(range[1], Frac(1, 2)), FAdd(range[2], Frac(1, 2))>>
    ELSE range

\* the bin edges of np.histogram2d
HistogramEdges(range, bins) ==
    Then(OuterEdges(range), LAMBDA outer : linspace(outer[1], outer[2], bins))

\* np.histogram2d of n photons that share the angle x and the distance y:
\* (counts, x_edges, y_edges)
histogram2d(n, x, y, bins, range) ==
    Then(<<HistogramEdges(range[1], bins[1]), HistogramEdges(range[2], bins[2])>>,
         LAMBDA edges :
            Then(<<BinOf(edges[1], x), BinOf(edges[2], y)>>,
                 LAMBDA bin :
                    <<[j \in 0..(bins[1] - 1) |-> [m \in 0..(bins[2] - 1) |->
                        IF j = bin[1] /\ m = bin[2] THEN Float(n) ELSE Float(0)]],
                      edges[1], edges[2]>>))

----------------------------------------------------------------------------
(* The photons read from a tree *)

\* the number of photons in the groups at the given positions
RECURSIVE NumberOf(_, _)
NumberOf(photons, among) ==
    IF among = {} THEN 0
    ELSE LET g == CHOOSE h \in among : TRUE
         IN  photons[g].n + NumberOf(photons, among \ {g})

\* len(pos_x)
EventSize(event) == NumberOf(event, DOMAIN event)

\* np.random.choice(len(positions), max_photons_per_event, replace=False) on
\* an event over the limit: the photons left out are those of one group,
\* left_out (every outcome there is for an event of one photon too many)
Sample(event, left_out) ==
    IF EventSize(event) <= max_photons_per_event THEN event
    ELSE [g \in DOMAIN event |->
            IF g = left_out
            THEN [event[g] EXCEPT !.n = @ - (EventSize(event) - max_photons_per_event)]
            ELSE event[g]]

\* the groups of photons a draw can leave the excess out of
Draws(file) ==
    IF \E e \in DOMAIN file.events : EventSize(file.events[e]) > max_photons_per_event
    THEN UNION {{g \in DOMAIN file.events[e] :
                    file.events[e][g].n
                        >= EventSize(file.events[e]) - max_photons_per_event} :
                e \in {h \in DOMAIN file.events :
                          EventSize(file.events[h]) > max_photons_per_event}}
    ELSE {1}

\* the state of numpy's global random generator, by what it makes of each
\* file: the group its draw leaves out
RandomStates ==
    {rng \in [DOMAIN sources -> 1..2] : \A i \in DOMAIN sources : rng[i] \in Draws(sources[i])}

\* all_angles / all_distances: the photons of every event, sampled, that are
\* left in the lists
RECURSIVE Extend(_, _, _)
Extend(events, left_out, e) ==
    IF e > Size(events) THEN <<>>
    ELSE SelectSeq(Sample(events[e], left_out), LAMBDA p : p.n > 0)
         \o Extend(events, left_out, e + 1)

\* the distance at position idx of the sorted distances
DistanceAt(photons, idx) ==
    LET d == CHOOSE v \in {photons[g].distance : g \in DOMAIN photons} :
                /\ NumberOf(photons, {g \in DOMAIN photons :
                                        FLt(photons[g].distance, v)}) <= idx
                /\ idx < NumberOf(photons, {g \in DOMAIN photons :
                                            FLe(photons[g].distance, v)})
    IN  d

\* np.percentile(distances, q): linear interpolation between the two sorted
\* values around position q (n - 1) / 100
percentile(photons, q) ==
    LET n == NumberOf(photons, DOMAIN photons)
        lo == (q * (n - 1)) \div 100
        hi == IF lo + 1 < n THEN lo + 1 ELSE lo
    IN  FAdd(DistanceAt(photons, lo),
             FMul(FSub(DistanceAt(photons, hi), DistanceAt(photons, lo)),
                  Frac((q * (n - 1)) % 100, 100)))

\* angles.min(), angles.max()
AngleRange(photons) ==
    <<CHOOSE v \in {photons[g].angle : g \in DOMAIN photons} :
            \A h \in DOMAIN photons : FLe(v, photons[h].angle),
      CHOOSE v \in {photons[g].angle : g \in DOMAIN photons} :
            \A h \in DOMAIN photons : FGe(v, photons[h].angle)>>

\* np.histogram2d of groups of photons: (counts, x_edges, y_edges)
histogram2d_of(photons, bins, range) ==
    Then(<<HistogramEdges(range[1], bins[1]), HistogramEdges(range[2], bins[2])>>,
         LAMBDA edges :
            <<[j \in 0..(bins[1] - 1) |-> [m \in 0..(bins[2] - 1) |->
                Float(NumberOf(photons,
                               {g \in DOMAIN photons :
                                    /\ BinOf(edges[1], photons[g].angle) = j
                                    /\ BinOf(edges[2], photons[g].distance) = m}))]],
              edges[1], edges[2]>>)

----------------------------------------------------------------------------
(* AveragePhotonTable3D *)

\* a builder that stopped on an uncaught exception
Abort(b, e) == [b EXCEPT !.pc = "raised", !.exc = e]

\* AveragePhotonTable3D.__init__
AveragePhotonTable3D(energy_min, energy_max, energy_step) ==
    [class |-> "AveragePhotonTable3D", pc |-> "constructed", exc |-> "",
     energy_values |-> Range(energy_min, energy_max, energy_step),
     angle_bins |-> TableBins, distance_bins |-> TableBins,
     photon_table |-> None, average_table |-> None,
     events_per_file |-> <<>>, bin_edges |-> None, bin_centers |-> None]

\* n_events of process_single_file: tree.num_entries, 10000 without a tree
EventsIn(file) == IF file.num_entries >= 0 THEN file.num_entries ELSE DefaultEvents

\* self.events_per_file[energy] = n_events
RecordEvents(b, energy, n_events) ==
    [b EXCEPT !.events_per_file = (energy :> n_events) @@ @]

\* PerEvent with the default event count in place of the file's
PerEvent_DefaultEvents(raw_counts, n_events) == DivideBy(raw_counts, DefaultEvents)

\* raw_counts / n_events
PerEvent(raw_counts, n_events) == DivideBy(raw_counts, n_events)

\* self.bin_edges and self.bin_centers taken from a file's histogram
WithGeometry(b, edges) ==
    [b EXCEPT !.bin_edges = <<b.energy_values, edges[1], edges[2]>>,
              !.bin_centers = <<b.energy_values, Midpoints(edges[1]), Midpoints(edges[2])>>]

\* the loop body of create_3d_table once raw_counts is not None
AverageStore(b, idx, raw_counts, edges, n_events) ==
    IF ~Broadcastable(Shape2(raw_counts), b.angle_bins, b.distance_bins)
    THEN Abort(b, "ValueError")
    ELSE [(IF idx = 0 THEN WithGeometry(b, edges) ELSE b) EXCEPT
            !.photon_table[idx] = Broadcast(raw_counts, b.angle_bins, b.distance_bins),
            !.average_table[idx] =
                Broadcast(PerEvent(raw_counts, n_events), b.angle_bins, b.distance_bins)]

----------------------------------------------------------------------------
(* NormalizedPhotonTable3D *)

\* self.skip_energies = [460, 480]
SkipEnergies == {460, 480}

\* [e for e in self.energy_values if e not in self.skip_energies]
Without(values, skip) ==
    LET keep == {i \in DOMAIN values : values[i] \notin skip}
    IN  [k \in 0..(Cardinality(keep) - 1) |->
            values[CHOOSE i \in keep : Cardinality({h \in keep : h < i}) = k]]

\* NormalizedPhotonTable3D.__init__
NormalizedPhotonTable3D(energy_min, energy_max, energy_step) ==
    [class |-> "NormalizedPhotonTable3D", pc |-> "constructed", exc |-> "",
     energy_values |-> Without(Range(energy_min, energy_max, energy_step), SkipEnergies),
     angle_bins |-> TableBins, distance_bins |-> TableBins,
     photon_table |-> None, normalized_table |-> None,
     events_per_file |-> <<>>, bin_edges |-> None, bin_centers |-> None]

\* the loop body of create_3d_table once normalized_counts is not None;
\* process_single_file has already divided the counts by n_events
NormalizedStore(b, idx, raw_counts, edges, n_events) ==
    IF ~Broadcastable(Shape2(raw_counts), b.angle_bins, b.distance_bins)
    THEN Abort(b, "ValueError")
    ELSE [b EXCEPT
            !.normalized_table[idx] =
                Broadcast(PerEvent(raw_counts, n_events), b.angle_bins, b.distance_bins),
            !.photon_table[idx] = Broadcast(raw_counts, b.angle_bins, b.distance_bins),
            !.bin_edges = IF idx = 0 THEN <<b.energy_values, edges[1], edges[2]>> ELSE @]

\* "Calculate bin centers" after the loop: None is not subscriptable
NormalizedCenters(b) ==
    IF b.pc = "raised" THEN b
    ELSE IF b.bin_edges = None THEN Abort(b, "TypeError")
    ELSE [b EXCEPT !.bin_centers = <<b.energy_values, Midpoints(b.bin_edges[2]),
                                     Midpoints(b.bin_edges[3])>>]

----------------------------------------------------------------------------
(* DensityPhotonTable3D *)

\* np.sin on [0, pi], by Bhaskara's rational approximation
\* 16 x (pi - x) / (5 pi^2 - 4 x (pi - x)), exact at 0, pi/6, pi/2, 5pi/6, pi
SinHalfTurn(x) ==
    FDiv(FMul(Float(16), FMul(x, FSub(Float(Pi), x))),
         FSub(Float(5 * Pi * Pi), FMul(Float(4), FMul(x, FSub(Float(Pi), x)))))

\* np.sin on [-pi, pi]
Sin(x) == IF FLt(x, Float(0)) THEN FNeg(SinHalfTurn(FNeg(x))) ELSE SinHalfTurn(x)

\* edges[1:] - edges[:-1]
Widths(edges) == [i \in 0..(Size(edges) - 2) |-> FSub(edges[i + 1], edges[i])]

\* 2 * np.pi * np.sin(angle_centers) * d_angle
SolidAngleElements(centers, d_angle) ==
    [j \in DOMAIN centers |-> FMul(FMul(Float(2 * Pi), Sin(centers[j])), d_angle[j])]

\* np.outer(solid_angle_elements, d_distance)
Outer(u, v) == [j \in DOMAIN u |-> [m \in DOMAIN v |-> FMul(u[j], v[m])]]

\* DensityPhotonTable3D.calculate_bin_areas
calculate_bin_areas(b) ==
    [b EXCEPT !.bin_areas =
        Outer(SolidAngleElements(b.bin_centers[2], Widths(b.bin_edges[2])),
              Widths(b.bin_edges[3]))]

\* the square root of 1 / 1e-10
EpsilonRoot == 100000

\* area < 1e-10 for an area n / d: d > n * 1e10
BelowEpsilon(area) ==
    /\ ~IsNaN(area)
    /\ \/ area[1] <= 0
       \/ area[2] # 0 /\ ((area[2] - 1) \div area[1]) \div EpsilonRoot >= EpsilonRoot

\* DensityPhotonTable3D.__init__
DensityPhotonTable3D(energy_min, energy_max, energy_step) ==
    [class |-> "DensityPhotonTable3D", pc |-> "constructed", exc |-> "",
     energy_values |-> Range(energy_min, energy_max, energy_step),
     angle_bins |-> TableBins, distance_bins |-> TableBins,
     photon_table |-> None, normalized_table |-> None, density_table |-> None,
     events_per_file |-> <<>>, bin_edges |-> None, bin_centers |-> None,
     bin_areas |-> None, h5 |-> None]

\* normalized / bin_areas, then zero wherever bin_areas < 1e-10
Density(normalized, bin_areas) ==
    [j \in DOMAIN normalized |-> [m \in DOMAIN normalized[j] |->
        IF BelowEpsilon(bin_areas[j][m]) THEN Float(0)
        ELSE FDiv(normalized[j][m], bin_areas[j][m])]]

\* "Calculate density": dividing by None is a TypeError; a boolean mask of
\* another shape than the layer is an IndexError
DensityDivide(b, idx) ==
    IF b.bin_areas = None THEN Abort(b, "TypeError")
    ELSE IF Shape2(b.bin_areas) # <<b.angle_bins, b.distance_bins>>
    THEN Abort(b, "IndexError")
    ELSE [b EXCEPT !.density_table[idx] = Density(b.normalized_table[idx], b.bin_areas)]

\* the loop body of create_3d_table once raw_counts is not None
DensityStore(b, idx, raw_counts, edges, n_events) ==
    IF ~Broadcastable(Shape2(raw_counts), b.angle_bins, b.distance_bins)
    THEN Abort(b, "ValueError")
    ELSE DensityDivide(
            [(IF idx = 0 THEN calculate_bin_areas(WithGeometry(b, edges)) ELSE b) EXCEPT
                !.photon_table[idx] = Broadcast(raw_counts, b.angle_bins, b.distance_bins),
                !.normalized_table[idx] =
                    Broadcast(PerEvent(raw_counts, n_events), b.angle_bins,
                              b.distance_bins)],
            idx)

----------------------------------------------------------------------------
(* The loop of create_3d_table of the three table_generation builders *)

\* the loop body once the file's histogram is at hand
Store(b, idx, raw_counts, edges, n_events) ==
    IF b.class = "AveragePhotonTable3D"
    THEN AverageStore(b, idx, raw_counts, edges, n_events)
    ELSE IF b.class = "NormalizedPhotonTable3D"
    THEN NormalizedStore(b, idx, raw_counts, edges, n_events)
    ELSE DensityStore(b, idx, raw_counts, edges, n_events)

\* one pass of the loop: a missing file is skipped; process_single_file
\* records the events of the file and returns None without the histogram
Ingest(b, idx, file) ==
    IF ~file.exists THEN b
    ELSE IF ~file.has_hist
    THEN RecordEvents(b, b.energy_values[idx], EventsIn(file))
    ELSE Store(RecordEvents(b, b.energy_values[idx], EventsIn(file)),
               idx, file.counts, file.edges, EventsIn(file))

\* the loop from position idx on
RECURSIVE IngestLoop(_, _)
IngestLoop(b, idx) ==
    IF b.pc = "raised" THEN b
    ELSE IF idx = Size(b.energy_values) THEN [b EXCEPT !.pc = "built"]
    ELSE Then(Ingest(b, idx, FileOf(b.energy_values[idx])),
              LAMBDA next : IngestLoop(next, idx + 1))

\* np.zeros((n_energies, self.angle_bins, self.distance_bins))
EmptyTable(b) == Zeros(Size(b.energy_values), b.angle_bins, b.distance_bins)

\* AveragePhotonTable3D.create_3d_table
AveragePhotonTable3D_create_3d_table(b) ==
    IngestLoop([b EXCEPT !.photon_table = EmptyTable(b),
                         !.average_table = EmptyTable(b)], 0)

\* NormalizedPhotonTable3D.create_3d_table
NormalizedPhotonTable3D_create_3d_table(b) ==
    Then(IngestLoop([b EXCEPT !.photon_table = EmptyTable(b),
                              !.normalized_table = EmptyTable(b)], 0),
         NormalizedCenters)

\* DensityPhotonTable3D.create_3d_table
DensityPhotonTable3D_create_3d_table(b) ==
    IngestLoop([b EXCEPT !.photon_table = EmptyTable(b),
                         !.normalized_table = EmptyTable(b),
                         !.density_table = EmptyTable(b)], 0)

\* DensityPhotonTable3D.save_table: photon_lookup_table.h5 with the tables,
\* the bin areas and the coordinates; h5py raises TypeError for a dataset
\* without data, and so does None[0]
DensityPhotonTable3D_save_table(b) ==
    IF b.bin_areas = None \/ b.bin_edges = None \/ b.bin_centers = None
    THEN Abort(b, "TypeError")
    ELSE [b EXCEPT !.pc = "saved",
                   !.h5 = [photon_table_raw |-> b.photon_table,
                           photon_table_normalized |-> b.normalized_table,
                           photon_table_density |-> b.density_table,
                           bin_areas |-> b.bin_areas,
                           energy_values |-> b.energy_values,
                           energy_edges |-> b.bin_edges[1],
                           angle_edges |-> b.bin_edges[2],
                           distance_edges |-> b.bin_edges[3],
                           energy_centers |-> b.bin_centers[1],
                           angle_centers |-> b.bin_centers[2],
                           distance_centers |-> b.bin_centers[3]]]

\* the output directory of a DensityPhotonTable3D: the files by name, none
\* before save_table
OutputDirectory(b) ==
    IF b.h5 = None THEN [name \in {} |-> None]
    ELSE [name \in {"photon_lookup_table.h5"} |-> b.h5]

\* SirenDatasetCreator.load_table on a directory: np.load raises
\* FileNotFoundError for a file that is not there, and metadata[key] raises
\* KeyError for an array that the archive does not hold
SirenDatasetCreator_load_table(directory) ==
    IF "photon_table_3d_density.npy" \notin DOMAIN directory
    THEN Raised("FileNotFoundError")
    ELSE IF "table_metadata_density.npz" \notin DOMAIN directory
    THEN Raised("FileNotFoundError")
    ELSE IF ~({"energy_values", "angle_centers", "distance_centers", "angle_edges",
               "distance_edges"}
                \subseteq DOMAIN directory["table_metadata_density.npz"])
    THEN Raised("KeyError")
    ELSE Returned([density_table |-> directory["photon_table_3d_density.npy"],
                   energy_values |->
                        directory["table_metadata_density.npz"].energy_values,
                   angle_centers |->
                        directory["table_metadata_density.npz"].angle_centers,
                   distance_centers |->
                        directory["table_metadata_density.npz"].distance_centers,
                   angle_edges |-> directory["table_metadata_density.npz"].angle_edges,
                   distance_edges |->
                        directory["table_metadata_density.npz"].distance_edges])

----------------------------------------------------------------------------
(* MultiEnergyPhotonTable3D *)

\* MultiEnergyPhotonTable3D.__init__
MultiEnergyPhotonTable3D(angle_bins_in, distance_bins_in, use_histogram_bins) ==
    [class |-> "MultiEnergyPhotonTable3D", pc |-> "constructed", exc |-> "",
     use_histogram_bins |-> use_histogram_bins,
     angle_bins |-> IF use_histogram_bins THEN TableBins ELSE angle_bins_in,
     distance_bins |-> IF use_histogram_bins THEN TableBins ELSE distance_bins_in,
     energy_values |-> <<>>,
     angle_range |-> <<Float(0), Float(Pi)>>,
     distance_range |-> <<Float(0), Float(FullScaleDistance)>>,
     photon_table |-> None, bin_edges |-> None, bin_centers |-> None]

\* find_root_files: the files found on disk, sorted by energy
find_root_files ==
    LET found == {i \in DOMAIN sources : sources[i].exists}
    IN  [k \in 0..(Cardinality(found) - 1) |->
            sources[CHOOSE i \in found :
                Cardinality({h \in found : sources[h].energy < sources[i].energy}) = k]]

\* process_single_file: the stored histogram when the file has one, else the
\* histogram of the photons of the tree over the builder's bins and ranges
\* (counts, edges); the one-element tuple of the exception's name when the
\* file holds neither
MultiEnergyPhotonTable3D_process_single_file(b, file) ==
    IF file.has_hist THEN <<file.counts, file.edges>>
    ELSE IF file.num_entries < 0 THEN <<"KeyError">>
    ELSE LET hist == histogram2d(IF file.num_entries = 0 THEN 0 ELSE file.photons,
                                 file.angle, file.distance,
                                 <<b.angle_bins, b.distance_bins>>,
                                 <<b.angle_range, b.distance_range>>)
         IN  <<hist[1], <<hist[2], hist[3]>>>>

\* the table re-dimensioned to the shape of the first histogram, left as it
\* was allocated
Redimension_KeepTable(b, shape) ==
    [b EXCEPT !.angle_bins = shape[1], !.distance_bins = shape[2]]

\* self.angle_bins, self.distance_bins = counts.shape and a new table of zeros
Redimension(b, shape) ==
    [b EXCEPT !.angle_bins = shape[1], !.distance_bins = shape[2],
              !.photon_table = Zeros(Size(b.energy_values), shape[1], shape[2])]

\* self.photon_table[idx] = counts and, for idx = 0, the bin edges and the
\* dimensions of the first file
MultiEnergyStore(b, idx, counts, edges) ==
    IF ~Broadcastable(Shape2(counts), Size(b.photon_table[idx]),
                      Size(b.photon_table[idx][0]))
    THEN Abort(b, "ValueError")
    ELSE IF idx = 0
    THEN [b EXCEPT !.photon_table[idx] =
                       Broadcast(counts, Size(b.photon_table[idx]),
                                 Size(b.photon_table[idx][0])),
                   !.bin_edges = <<b.energy_values, edges[1], edges[2]>>,
                   !.angle_bins = Size(edges[1]) - 1,
                   !.distance_bins = Size(edges[2]) - 1]
    ELSE [b EXCEPT !.photon_table[idx] =
                       Broadcast(counts, Size(b.photon_table[idx]),
                                 Size(b.photon_table[idx][0]))]

\* the loop body of create_3d_table: a histogram of another shape
\* re-dimensions the table when it is the first and is skipped otherwise
MultiEnergyIngest(b, idx, processed) ==
    IF Size(processed) = 1 THEN Abort(b, processed[1])
    ELSE IF Shape2(processed[1]) # <<b.angle_bins, b.distance_bins>>
    THEN IF b.use_histogram_bins /\ idx = 0
         THEN MultiEnergyStore(Redimension(b, Shape2(processed[1])), idx,
                               processed[1], processed[2])
         ELSE b
    ELSE MultiEnergyStore(b, idx, processed[1], processed[2])

\* the loop over root_files from position idx on
RECURSIVE MultiEnergyLoop(_, _, _)
MultiEnergyLoop(b, root_files, idx) ==
    IF b.pc = "raised" \/ idx = Size(root_files) THEN b
    ELSE Then(MultiEnergyPhotonTable3D_process_single_file(b, root_files[idx]),
              LAMBDA processed :
                Then(MultiEnergyIngest(b, idx, processed),
                     LAMBDA next : MultiEnergyLoop(next, root_files, idx + 1)))

\* the bin centers and the ranges computed after the loop
MultiEnergyCenters(b) ==
    IF b.pc = "raised" THEN b
    ELSE IF b.bin_edges = None THEN Abort(b, "TypeError")
    ELSE [b EXCEPT !.bin_centers = <<b.energy_values, Midpoints(b.bin_edges[2]),
                                     Midpoints(b.bin_edges[3])>>,
                   !.angle_range = <<b.bin_edges[2][0], Last(b.bin_edges[2])>>,
                   !.distance_range = <<b.bin_edges[3][0], Last(b.bin_edges[3])>>,
                   !.pc = "built"]

\* MultiEnergyPhotonTable3D.create_3d_table: find_root_files fails with
\* IndexError on energy_values[0] when no file is found
MultiEnergyPhotonTable3D_create_3d_table(b, root_files) ==
    IF Size(root_files) = 0 THEN Abort(b, "IndexError")
    ELSE Then(MultiEnergyLoop(
                [b EXCEPT !.energy_values =
                              [k \in DOMAIN root_files |-> root_files[k].energy],
                          !.photon_table =
                              Zeros(Size(root_files), b.angle_bins, b.distance_bins)],
                root_files, 0),
              MultiEnergyCenters)

----------------------------------------------------------------------------
(* DiscreteEnergy3DTableBuilder *)

\* sorted(values)
Sorted(values) ==
    [k \in 0..(Cardinality(values) - 1) |->
        CHOOSE v \in values : Cardinality({u \in values : u < v}) = k]

\* DiscreteEnergy3DTableBuilder.__init__ with a pattern: find_root_files maps
\* the energy of every file on disk to the file (its position in sources)
DiscreteEnergy3DTableBuilder ==
    [class |-> "DiscreteEnergy3DTableBuilder", pc |-> "constructed", exc |-> "",
     energy_files |-> [e \in {sources[i].energy : i \in {h \in DOMAIN sources :
                                                         sources[h].exists}} |->
                          CHOOSE i \in DOMAIN sources :
                            /\ sources[i].exists /\ sources[i].energy = e
                            /\ \A h \in DOMAIN sources :
                                    sources[h].exists /\ sources[h].energy = e => h <= i],
     energy_histograms |-> <<>>,
     angle_bins |-> None, distance_bins |-> None,
     report |-> None, table_3d |-> None, energies |-> None, files |-> None]

\* load_histogram_from_file: hist.values(), None without the histogram
load_histogram_from_file(file) == IF file.has_hist THEN file.counts ELSE None

\* load_all_histograms: the histograms by energy, the bin dimensions of the
\* first one loaded (files are visited in the order of sources), and the
\* printed "Successfully loaded {success_count}/{len(self.energy_files)}"
load_all_histograms(b) ==
    IF DOMAIN b.energy_files = {} THEN [b EXCEPT !.pc = "failed"]
    ELSE LET loaded == {e \in DOMAIN b.energy_files :
                            load_histogram_from_file(sources[b.energy_files[e]]) # None}
             first == CHOOSE e \in loaded :
                            \A u \in loaded : b.energy_files[e] <= b.energy_files[u]
         IN  [b EXCEPT
                !.energy_histograms = [e \in loaded |-> sources[b.energy_files[e]].counts],
                !.angle_bins = IF loaded = {} THEN None
                               ELSE Size(sources[b.energy_files[first]].counts),
                !.distance_bins = IF loaded = {} THEN None
                                  ELSE Size(sources[b.energy_files[first]].counts[0]),
                !.report = <<Cardinality(loaded), Cardinality(DOMAIN b.energy_files)>>,
                !.pc = IF loaded = {} THEN "failed" ELSE "loaded"]

\* DiscreteEnergy3DTableBuilder.create_3d_table: the histograms stacked by
\* ascending energy and normalised layer by layer; table_3d[i, :, :] =
\* histogram_2d raises ValueError for a histogram that cannot be broadcast
DiscreteEnergy3DTableBuilder_create_3d_table(b, energies) ==
    IF DOMAIN b.energy_histograms = {} THEN [b EXCEPT !.pc = "built"]
    ELSE IF \E e \in DOMAIN b.energy_histograms :
                ~Broadcastable(Shape2(b.energy_histograms[e]), b.angle_bins,
                               b.distance_bins)
    THEN Abort(b, "ValueError")
    ELSE [b EXCEPT
            !.table_3d = NormalizeLayers(
                [i \in DOMAIN energies |->
                    Broadcast(b.energy_histograms[energies[i]], b.angle_bins,
                              b.distance_bins)]),
            !.energies = energies,
            !.pc = "built"]

\* DiscreteEnergy3DTableBuilder.save_3d_table with the default filename:
\* np.savez_compressed of table_3d, energies, angle_bins and distance_bins
DiscreteEnergy3DTableBuilder_save_3d_table(b) ==
    [b EXCEPT
        !.files = [discrete_energy_3d_table |->
                    [table_3d |-> Npy3(b.table_3d),
                     energies |-> Npy1(Floats(b.energies)),
                     angle_bins |-> Npy0(b.angle_bins),
                     distance_bins |-> Npy0(b.distance_bins)]],
        !.pc = "saved"]

----------------------------------------------------------------------------
(* DiscreteEnergyTableBuilder and the command of create_discrete_energy_table *)

\* DiscreteEnergyTableBuilder.__init__ followed by main's builder.angle_bins =
\* args.angle_bins and builder.distance_bins = args.distance_bins; exit is the
\* exit status of the command and written the files it saved
DiscreteEnergyTableBuilder(angle_bins_in, distance_bins_in) ==
    [class |-> "DiscreteEnergyTableBuilder", pc |-> "constructed", exc |-> "",
     angle_bins |-> angle_bins_in, distance_bins |-> distance_bins_in,
     energy_tables |-> <<>>, energy_metadata |-> <<>>,
     exit |-> None, written |-> None, files |-> None]

\* the histogram and the metadata create_2d_table_from_file stores: total
\* counts every photon of the tree, processed those left after the sampling
\* and filtered those within the distance cut
TableOfPhotons(b, file, processed, filtered, distance_95th, hist) ==
    [b EXCEPT
        !.energy_tables = (file.energy :> hist[1]) @@ @,
        !.energy_metadata =
            (file.energy :> [angle_range |-> AngleRange(filtered),
                             distance_range |-> <<Float(0), distance_95th>>,
                             angle_edges |-> hist[2],
                             distance_edges |-> hist[3],
                             angle_centers |-> Midpoints(hist[2]),
                             distance_centers |-> Midpoints(hist[3]),
                             total_photons |-> file.photons,
                             processed_photons |-> NumberOf(processed, DOMAIN processed),
                             filtered_photons |-> NumberOf(filtered, DOMAIN filtered)])
            @@ @]

\* "Filter outliers (95th percentile)" and "Create 2D histogram": the angle
\* range spans the angles of the photons kept, the distance range runs from 0
\* to the 95th percentile
FilterAndBin(b, file, processed, distance_95th) ==
    Then(SelectSeq(processed, LAMBDA p : FLe(p.distance, distance_95th)),
         LAMBDA filtered :
            TableOfPhotons(b, file, processed, filtered, distance_95th,
                           histogram2d_of(filtered, <<b.angle_bins, b.distance_bins>>,
                                          <<AngleRange(filtered),
                                            <<Float(0), distance_95th>>>>)))

\* create_2d_table_from_file: returns None, storing nothing, when the tree
\* cannot be read or holds no photon
create_2d_table_from_file(b, file, left_out) ==
    IF file.num_entries < 0 THEN b
    ELSE Then(Extend(file.events, left_out, 1),
              LAMBDA processed :
                IF processed = <<>> THEN b
                ELSE FilterAndBin(b, file, processed, percentile(processed, 95)))

\* the loop of main over the files from position i on: a file that is not on
\* disk is skipped
RECURSIVE ProcessFiles(_, _, _)
ProcessFiles(b, i, rng) ==
    IF i = Size(sources) THEN b
    ELSE Then(IF sources[i].exists
              THEN create_2d_table_from_file(b, sources[i], rng[i]) ELSE b,
              LAMBDA next : ProcessFiles(next, i + 1, rng))

\* sum(meta['total_photons'] for meta in self.energy_metadata.values())
RECURSIVE SumOfTotals(_, _)
SumOfTotals(energy_metadata, among) ==
    IF among = {} THEN 0
    ELSE LET e == CHOOSE u \in among : TRUE
         IN  energy_metadata[e].total_photons
             + SumOfTotals(energy_metadata, among \ {e})

\* create_3d_table_from_2d_stack: (histogram_3d, metadata_3d), None without
\* tables; energies[-2] raises IndexError when there is a single table
create_3d_table_from_2d_stack(b, energies) ==
    IF DOMAIN b.energy_tables = {} THEN None
    ELSE IF Size(energies) < 2 THEN <<"IndexError">>
    ELSE IF \E i \in DOMAIN energies :
                ~Broadcastable(Shape2(b.energy_tables[energies[i]]), b.angle_bins,
                               b.distance_bins)
    THEN <<"ValueError">>
    ELSE <<[i \in DOMAIN energies |->
                Broadcast(b.energy_tables[energies[i]], b.angle_bins, b.distance_bins)],
           [energy_bins |-> Size(energies),
            angle_bins |-> b.angle_bins,
            distance_bins |-> b.distance_bins,
            energy_edges |->
                [i \in 0..Size(energies) |->
                    IF i < Size(energies) THEN energies[i]
                    ELSE Last(energies)
                         + (Last(energies) - energies[Size(energies) - 2])],
            angle_edges |-> b.energy_metadata[energies[0]].angle_edges,
            distance_edges |-> b.energy_metadata[energies[0]].distance_edges,
            energy_centers |-> energies,
            angle_centers |-> b.energy_metadata[energies[0]].angle_centers,
            distance_centers |-> b.energy_metadata[energies[0]].distance_centers,
            energy_range |-> <<energies[0], Last(energies)>>,
            angle_range |-> b.energy_metadata[energies[0]].angle_range,
            distance_range |-> b.energy_metadata[energies[0]].distance_range,
            total_photons |->
                SumOfTotals(b.energy_metadata, DOMAIN b.energy_metadata)]>>

\* DiscreteEnergyTableBuilder.save_3d_table: np.save of the histogram and
\* np.savez of the metadata, the energies Python floats
DiscreteEnergyTableBuilder_save_3d_table(histogram_3d, metadata_3d) ==
    [photon_histogram_3d_discrete |-> Npy3(histogram_3d),
     table_metadata_discrete |->
        [energy_bins |-> Npy0(metadata_3d.energy_bins),
         angle_bins |-> Npy0(metadata_3d.angle_bins),
         distance_bins |-> Npy0(metadata_3d.distance_bins),
         energy_edges |-> Npy1(Floats(metadata_3d.energy_edges)),
         angle_edges |-> Npy1(metadata_3d.angle_edges),
         distance_edges |-> Npy1(metadata_3d.distance_edges),
         energy_centers |-> Npy1(Floats(metadata_3d.energy_centers)),
         angle_centers |-> Npy1(metadata_3d.angle_centers),
         distance_centers |-> Npy1(metadata_3d.distance_centers),
         energy_range |-> NpyPair(<<Float(metadata_3d.energy_range[1]),
                                    Float(metadata_3d.energy_range[2])>>),
         angle_range |-> NpyPair(metadata_3d.angle_range),
         distance_range |-> NpyPair(metadata_3d.distance_range),
         total_photons |-> Npy0(metadata_3d.total_photons)]]

\* the end of main once the files are processed: status 1 without tables;
\* an exception of the stacking ends the command with a traceback and status
\* 1; else save_3d_table writes the table and the status is 0
Finish(b, stacked) ==
    IF DOMAIN b.energy_tables = {} THEN [b EXCEPT !.pc = "exited", !.exit = 1]
    ELSE IF Size(stacked) = 1
    THEN [b EXCEPT !.pc = "exited", !.exc = stacked[1], !.exit = 1]
    ELSE [b EXCEPT !.pc = "exited", !.exit = 0,
                   !.written = [photon_histogram_3d_discrete |-> stacked[1],
                                table_metadata_discrete |-> stacked[2]],
                   !.files = DiscreteEnergyTableBuilder_save_3d_table(stacked[1],
                                                                      stacked[2])]

\* the part of main after the loop over the files
StackAndSave(b) ==
    Then(Sorted(DOMAIN b.energy_tables),
         LAMBDA energies :
            Then(create_3d_table_from_2d_stack(b, energies),
                 LAMBDA stacked : Finish(b, stacked)))

\* main of create_discrete_energy_table.py, the global random generator in
\* the state rng
main(b, rng) == Then(ProcessFiles(b, 0, rng), StackAndSave)

----------------------------------------------------------------------------
(* PhotonTable3D.load_and_process_data and create_histogram *)

\* np.histogramdd over the given bin edges of photons that share the energy
\* of their file
histogramdd(photons, energy, edges) ==
    [k \in 0..(Size(edges[1]) - 2) |-> [j \in 0..(Size(edges[2]) - 2) |->
        [m \in 0..(Size(edges[3]) - 2) |->
            Float(NumberOf(photons,
                           {g \in DOMAIN photons :
                                /\ BinOf(edges[1], energy) = k
                                /\ BinOf(edges[2], photons[g].angle) = j
                                /\ BinOf(edges[3], photons[g].distance) = m}))]]]

\* the bin edges, the bin centers and the histogram of create_histogram once
\* the ranges are set: np.linspace over each range, then np.histogramdd of
\* the photons within the distance cut
BinOverRanges(bins, energy, photons, ranges) ==
    Then(<<linspace(ranges[1][1], ranges[1][2], bins[1]),
           linspace(ranges[2][1], ranges[2][2], bins[2]),
           linspace(ranges[3][1], ranges[3][2], bins[3])>>,
         LAMBDA edges :
            [histogram |->
                histogramdd(SelectSeq(photons, LAMBDA p : FLe(p.distance, ranges[3][2])),
                            energy, edges),
             bin_edges |-> edges,
             bin_centers |-> <<Midpoints(edges[1]), Midpoints(edges[2]),
                               Midpoints(edges[3])>>,
             energy_range |-> ranges[1],
             angle_range |-> ranges[2],
             distance_range |-> ranges[3]])

\* PhotonTable3D.create_histogram: the energy and angle ranges span the data,
\* the distance range runs from 0 to the 95th percentile
create_histogram(bins, energy, photons) ==
    BinOverRanges(bins, energy, photons,
                  <<<<energy, energy>>, AngleRange(photons),
                    <<Float(0), percentile(photons, 95)>>>>)

\* main of create_photon_table.py up to create_histogram, on the one ROOT
\* file it is given: file["OpticalPhotons"] raises KeyError without the
\* tree, energies.min() raises ValueError without photons; else the record
\* of what create_histogram stores in the table object
LoadAndCreate(bins, file, left_out) ==
    IF file.num_entries < 0 THEN <<"KeyError">>
    ELSE Then(Extend(file.events, left_out, 1),
              LAMBDA photons :
                IF photons = <<>> THEN <<"ValueError">>
                ELSE create_histogram(bins, Float(file.energy), photons))

----------------------------------------------------------------------------
(* Build actions *)

\* the files of a build: every combination of kinds, geometries alternating
\* from g0
InitSources ==
    \E kinds \in [0..(MaxSources - 1) -> SourceKinds], g0 \in 0..1 :
        sources = [i \in 0..(MaxSources - 1) |-> SourceFile(kinds[i], i, (i + g0) % 2)]

\* PhotonTable3D.__init__: a table object whose histogram is not built
PhotonTable3D(energy_bins_in, angle_bins_in, distance_bins_in) ==
    /\ table_kind = "none"
    /\ histogram = None
    /\ energy_edges = None /\ angle_edges = None /\ distance_edges = None
    /\ energy_centers = None /\ angle_centers = None /\ distance_centers = None
    /\ energy_range = None /\ angle_range = None /\ distance_range = None
    /\ energy_bins = energy_bins_in
    /\ angle_bins = angle_bins_in
    /\ distance_bins = distance_bins_in
    /\ op = "idle" /\ args = <<>> /\ outcome = NoOutcome

Build(b) ==
    /\ builder' = b
    /\ UNCHANGED <<table_vars, op, args, outcome, sources>>

AveragePhotonTable3DCreate3DTable ==
    /\ op = "idle"
    /\ builder.class = "AveragePhotonTable3D"
    /\ builder.pc = "constructed"
    /\ Build(AveragePhotonTable3D_create_3d_table(builder))

NormalizedPhotonTable3DCreate3DTable ==
    /\ op = "idle"
    /\ builder.class = "NormalizedPhotonTable3D"
    /\ builder.pc = "constructed"
    /\ Build(NormalizedPhotonTable3D_create_3d_table(builder))

DensityPhotonTable3DCreate3DTable ==
    /\ op = "idle"
    /\ builder.class = "DensityPhotonTable3D"
    /\ builder.pc = "constructed"
    /\ Build(DensityPhotonTable3D_create_3d_table(builder))

DensityPhotonTable3DSaveTable ==
    /\ op = "idle"
    /\ builder.class = "DensityPhotonTable3D"
    /\ builder.pc = "built"
    /\ Build(DensityPhotonTable3D_save_table(builder))

\* SirenDatasetCreator(table_dir) on the directory save_table wrote to
SirenDatasetCreatorLoadTable ==
    /\ op = "idle"
    /\ builder.class = "DensityPhotonTable3D"
    /\ builder.pc = "saved"
    /\ Call("SirenDatasetCreator.load_table", <<>>,
            SirenDatasetCreator_load_table(OutputDirectory(builder)))

MultiEnergyPhotonTable3DCreate3DTable ==
    /\ op = "idle"
    /\ builder.class = "MultiEnergyPhotonTable3D"
    /\ builder.pc = "constructed"
    /\ \E root_files \in {find_root_files} :
            Build(MultiEnergyPhotonTable3D_create_3d_table(builder, root_files))

DiscreteEnergy3DTableBuilderLoadAllHistograms ==
    /\ op = "idle"
    /\ builder.class = "DiscreteEnergy3DTableBuilder"
    /\ builder.pc = "constructed"
    /\ Build(load_all_histograms(builder))

DiscreteEnergy3DTableBuilderCreate3DTable ==
    /\ op = "idle"
    /\ builder.class = "DiscreteEnergy3DTableBuilder"
    /\ builder.pc = "loaded"
    /\ \E energies \in {Sorted(DOMAIN builder.energy_histograms)} :
            Build(DiscreteEnergy3DTableBuilder_create_3d_table(builder, energies))

CreateDiscreteEnergyTableMain ==
    /\ op = "idle"
    /\ builder.class = "DiscreteEnergyTableBuilder"
    /\ builder.pc = "constructed"
    /\ \E rng \in RandomStates : Build(main(builder, rng))

DiscreteEnergy3DTableBuilderSave3DTable ==
    /\ op = "idle"
    /\ builder.class = "DiscreteEnergy3DTableBuilder"
    /\ builder.pc = "built"
    /\ Build(DiscreteEnergy3DTableBuilder_save_3d_table(builder))

\* np.load of a saved pair as the Python pair made of its items
PairOf(file) == <<np_load(file)[0], np_load(file)[1]>>

\* DiscreteEnergy3DTableBuilder.load_3d_table with the default filename, once
\* the script that builds the table has ended: (None, None) for any
\* exception, as that of a file that is not there
DiscreteEnergy3DTableBuilderLoad3DTable ==
    /\ op = "idle"
    /\ table_kind = "none"
    /\ builder.class = "DiscreteEnergy3DTableBuilder"
    /\ builder.pc \in {"saved", "failed", "raised"}
    /\ op' = "DiscreteEnergy3DTableBuilder.load_3d_table"
    /\ args' = <<>>
    /\ UNCHANGED build_vars
    /\ IF builder.files = None
       THEN outcome' = Returned(None) /\ UNCHANGED table_vars
       ELSE \E data \in {builder.files.discrete_energy_3d_table} :
                /\ table_kind' = "discrete_energy_3d_table"
                /\ histogram' = np_load(data.table_3d)
                /\ energy_centers' = np_load(data.energies)
                /\ energy_bins' = Size(np_load(data.energies))
                /\ angle_bins' = np_load(data.angle_bins)
                /\ distance_bins' = np_load(data.distance_bins)
                /\ energy_range' = <<>>
                /\ angle_range' = <<>>
                /\ distance_range' = <<>>
                /\ energy_edges' = NoArray
                /\ angle_edges' = NoArray
                /\ distance_edges' = NoArray
                /\ angle_centers' = NoArray
                /\ distance_centers' = NoArray
                /\ outcome' = Returned(Float(0))

\* DiscreteEnergyTableQuery.__init__ on the output directory of the command
\* that has ended: FileNotFoundError without the files
DiscreteEnergyTableQueryInit ==
    /\ op = "idle"
    /\ table_kind = "none"
    /\ builder.class = "DiscreteEnergyTableBuilder"
    /\ builder.pc = "exited"
    /\ op' = "DiscreteEnergyTableQuery.__init__"
    /\ args' = <<>>
    /\ UNCHANGED build_vars
    /\ IF builder.files = None
       THEN outcome' = Raised("FileNotFoundError") /\ UNCHANGED table_vars
       ELSE \E metadata \in {builder.files.table_metadata_discrete} :
                /\ table_kind' = "photon_histogram_3d_discrete"
                /\ histogram' = np_load(builder.files.photon_histogram_3d_discrete)
                /\ energy_centers' = np_load(metadata.energy_centers)
                /\ angle_centers' = np_load(metadata.angle_centers)
                /\ distance_centers' = np_load(metadata.distance_centers)
                /\ energy_edges' = np_load(metadata.energy_edges)
                /\ angle_edges' = np_load(metadata.angle_edges)
                /\ distance_edges' = np_load(metadata.distance_edges)
                /\ energy_range' = PairOf(metadata.energy_range)
                /\ angle_range' = PairOf(metadata.angle_range)
                /\ distance_range' = PairOf(metadata.distance_range)
                /\ energy_bins' = np_load(metadata.energy_bins)
                /\ angle_bins' = np_load(metadata.angle_bins)
                /\ distance_bins' = np_load(metadata.distance_bins)
                /\ outcome' = Returned(Float(0))

\* the table object after create_histogram
Created(built) ==
    /\ table_kind' = "in_memory"
    /\ histogram' = built.histogram
    /\ energy_edges' = built.bin_edges[1]
    /\ angle_edges' = built.bin_edges[2]
    /\ distance_edges' = built.bin_edges[3]
    /\ energy_centers' = built.bin_centers[1]
    /\ angle_centers' = built.bin_centers[2]
    /\ distance_centers' = built.bin_centers[3]
    /\ energy_range' = built.energy_range
    /\ angle_range' = built.angle_range
    /\ distance_range' = built.distance_range
    /\ UNCHANGED <<energy_bins, angle_bins, distance_bins>>
    /\ outcome' = Returned(Float(0))

PhotonTable3DCreateHistogram ==
    /\ op = "idle"
    /\ table_kind = "none"
    /\ Size(sources) = 1
    /\ op' = "PhotonTable3D.create_histogram"
    /\ args' = <<>>
    /\ UNCHANGED build_vars
    /\ \E left_out \in Draws(sources[0]) :
        \E built \in {LoadAndCreate(<<energy_bins, angle_bins, distance_bins>>,
                                    sources[0], left_out)} :
            IF Size(built) = 1
            THEN outcome' = Raised(built[1]) /\ UNCHANGED table_vars
            ELSE Created(built)

----------------------------------------------------------------------------
(* Specifications *)

\* the discrete-energy tables and their lookups
Init == (InitDiscreteTable \/ InitStackedTable) /\ InitIdle

Next ==
    \/ DiscreteEnergyTableQueryQuery
    \/ DiscreteEnergyTableQueryQueryBatch
    \/ DiscreteEnergy3DTableBuilderQuery3DTable
    \/ Return

Spec == Init /\ [][Next]_vars

\* the regular-grid table and its range-checked lookups
InitEdge == InitRegularTable /\ InitIdle

NextEdge ==
    \/ PhotonTableQueryQuery
    \/ PhotonTable3DQueryQueryInterpolate
    \/ PhotonTable3DQueryInterpolate
    \/ PhotonTable3DQueryTable
    \/ Return

SpecEdge == InitEdge /\ [][NextEdge]_vars

\* the table builds
InitBuild ==
    /\ PhotonTable3D(TableBins, TableBins, TableBins)
    /\ InitSources
    /\ \/ builder = AveragePhotonTable3D(100, 100 + 10 * (MaxSources - 1), 10)
       \/ builder = NormalizedPhotonTable3D(100, 100 + 10 * (MaxSources - 1), 10)
       \/ builder = DensityPhotonTable3D(100, 100 + 10 * (MaxSources - 1), 10)
       \/ \E use_histogram_bins \in BOOLEAN :
            builder = MultiEnergyPhotonTable3D(TableBins, TableBins, use_histogram_bins)
       \/ builder = DiscreteEnergy3DTableBuilder
       \/ builder = DiscreteEnergyTableBuilder(TableBins, TableBins)

NextBuild ==
    \/ AveragePhotonTable3DCreate3DTable
    \/ NormalizedPhotonTable3DCreate3DTable
    \/ DensityPhotonTable3DCreate3DTable
    \/ DensityPhotonTable3DSaveTable
    \/ SirenDatasetCreatorLoadTable
    \/ MultiEnergyPhotonTable3DCreate3DTable
    \/ DiscreteEnergy3DTableBuilderLoadAllHistograms
    \/ DiscreteEnergy3DTableBuilderCreate3DTable
    \/ CreateDiscreteEnergyTableMain

SpecBuild == InitBuild /\ [][NextBuild]_vars

\* the methods of the two query classes on a table they have loaded
InitLoaded == (InitRegularTable \/ InitDiscreteTable) /\ InitIdle

NextLoaded ==
    \/ PhotonTable3DQueryQueryInterpolate
    \/ PhotonTable3DQueryQueryNearest
    \/ PhotonTable3DQueryGetStatistics
    \/ DiscreteEnergyTableQueryQuery
    \/ DiscreteEnergyTableQueryQueryBatch
    \/ DiscreteEnergyTableQueryGetAvailableEnergies
    \/ DiscreteEnergyTableQueryGetParameterRanges
    \/ Return

SpecLoaded == InitLoaded /\ [][NextLoaded]_vars

\* the files of a build that reads the trees: every combination of kinds, the
\* energies all different or, with same_energy, those of files i and i + 2
\* the same
InitTrees ==
    \E kinds \in [0..(MaxTrees - 1) -> {"ok", "no_tree"} \cup TreeOnlyKinds],
       same_energy \in BOOLEAN :
        sources = [i \in 0..(MaxTrees - 1) |->
                    [SourceFile(kinds[i], i, 0) EXCEPT
                        !.energy = IF same_energy THEN 100 + 10 * (i % 2) ELSE @]]

\* the builds of the discrete-energy tables from trees and histograms
InitTree ==
    /\ PhotonTable3D(TableBins, TableBins, TableBins)
    /\ InitTrees
    /\ \/ builder = DiscreteEnergy3DTableBuilder
       \/ builder = DiscreteEnergyTableBuilder(TableBins, TableBins)

NextTree ==
    \/ DiscreteEnergy3DTableBuilderLoadAllHistograms
    \/ DiscreteEnergy3DTableBuilderCreate3DTable
    \/ DiscreteEnergy3DTableBuilderSave3DTable
    \/ DiscreteEnergy3DTableBuilderLoad3DTable
    \/ CreateDiscreteEnergyTableMain
    \/ DiscreteEnergyTableQueryInit
    \/ Return

SpecTree == InitTree /\ [][NextTree]_vars

\* the lookups on table objects that were constructed and never built
InitUnbuilt ==
    /\ \E nE \in 1..MaxBins, nA \in 1..MaxBins, nD \in 1..MaxBins : PhotonTable3D(nE, nA, nD)
    /\ \E kind \in {"ok", "no_tree", "zero_events"} \cup TreeOnlyKinds, i \in 0..1 :
            sources = [h \in {0} |-> SourceFile(kind, i, 0)]
    /\ builder = [class |-> "none", pc |-> "none"]

NextUnbuilt ==
    \/ PhotonTable3DCreateHistogram
    \/ PhotonTable3DQueryInterpolate
    \/ PhotonTable3DQueryTable
    \/ Return

SpecUnbuilt == InitUnbuilt /\ [][NextUnbuilt]_vars

----------------------------------------------------------------------------
(* Properties *)

EdgeLookups ==
    {"PhotonTableQuery.query", "PhotonTable3DQuery.query_interpolate",
     "PhotonTable3D.query_interpolate"}

\* the coordinates of grid node (k, j, m) of the loaded table
NodeArgs(k, j, m) ==
    IF table_kind = "discrete_energy_3d_table"
    THEN <<energy_centers[k],
           Midpoints(linspace(Float(0), Float(Pi), angle_bins))[j],
           Midpoints(linspace(Float(0), Float(FullScaleDistance), distance_bins))[m]>>
    ELSE <<energy_centers[k], angle_centers[j], distance_centers[m]>>

Nodes == {<<k, j, m>> : k \in 0..(energy_bins - 1), j \in 0..(angle_bins - 1),
                        m \in 0..(distance_bins - 1)}

FiniteArgs == IsFinite(args[1]) /\ IsFinite(args[2]) /\ IsFinite(args[3])

\* C1: an edge-based trilinear lookup (PhotonTableQuery.query,
\* PhotonTable3DQuery.query_interpolate, query_3d_table) asked at grid node
\* (k, j, m) returns exactly the stored value values[k, j, m] (stated for the
\* calls that return).
C1_EdgeLookupExactAtNodes ==
    \A node \in Nodes :
        (/\ op \in {"PhotonTableQuery.query", "PhotonTable3DQuery.query_interpolate",
                    "DiscreteEnergy3DTableBuilder.query_3d_table"}
         /\ args = NodeArgs(node[1], node[2], node[3])
         /\ outcome.status = "returned")
        => outcome.value = histogram[node[1]][node[2]][node[3]]

\* C2: DiscreteEnergyTableQuery.query asked at grid node (k, j, m), first and
\* last index of every axis included, returns histogram_3d[k, j, m].
C2_DiscreteQueryExactAtNodes ==
    \A node \in Nodes :
        (/\ op = "DiscreteEnergyTableQuery.query"
         /\ args = NodeArgs(node[1], node[2], node[3]))
        => outcome = Returned(histogram[node[1]][node[2]][node[3]])

\* a query at the last node of every axis of a table with at least two bins
\* on every axis has returned the stored value
C2_Witness ==
    /\ op = "DiscreteEnergyTableQuery.query"
    /\ energy_bins >= 2 /\ angle_bins >= 2 /\ distance_bins >= 2
    /\ args = NodeArgs(energy_bins - 1, angle_bins - 1, distance_bins - 1)
    /\ outcome = Returned(histogram[energy_bins - 1][angle_bins - 1][distance_bins - 1])
    /\ histogram[energy_bins - 1][angle_bins - 1][distance_bins - 1]
         # histogram[energy_bins - 1][angle_bins - 2][distance_bins - 1]

\* x lies inside the axis with these edges
InAxis(edges, x) == IsFinite(x) /\ FLe(edges[0], x) /\ FLe(x, Last(edges))

\* the nodes that lo and hi name bracket x, and the weight is a fraction
Brackets(nodes, lo, hi, t, x) ==
    /\ FLe(nodes[lo], x) /\ FLe(x, nodes[hi])
    /\ FLe(Float(0), t) /\ FLe(t, Float(1))

\* C3: for a coordinate inside its axis range the lookup selects an index pair
\* whose nodes bracket the coordinate, with an interpolation weight
\* 0 <= t <= 1, in every bin of the axis (stated for the angle axis, between
\* the first and the last node that the lookup interpolates).
C3_BracketAndUnitWeight ==
    /\ (op = "DiscreteEnergyTableQuery.query" /\ angle_bins >= 2 /\ FiniteArgs
          /\ InAxis(angle_edges, args[2])
          /\ FLe(angle_centers[0], args[2]) /\ FLe(args[2], Last(angle_centers)))
       => LET b == FindBin(angle_edges, angle_centers, args[2])
          IN  Brackets(angle_centers, b[1], b[2], b[3], args[2])
    /\ (op = "PhotonTableQuery.query" /\ angle_bins >= 2 /\ FiniteArgs
          /\ InAxis(angle_edges, args[2]))
       => LET idx == EdgeIndex(angle_edges, args[2], Size(histogram[0]))
          IN  Brackets(angle_edges, idx, idx + 1,
                       EdgeFrac(angle_edges, args[2], idx), args[2])

\* C4: on a table of non-negative values a query with finite coordinates, in
\* range or not, returns a value >= 0.
C4_NonNegative ==
    (/\ op \in {"DiscreteEnergyTableQuery.query", "PhotonTableQuery.query"}
     /\ FiniteArgs
     /\ outcome.status = "returned")
    => FGe(outcome.value, Float(0))

DiscreteLookup(energy, angle, distance) ==
    IF op = "DiscreteEnergyTableQuery.query"
    THEN DiscreteEnergyTableQuery_query(energy, angle, distance)
    ELSE query_3d_table(histogram, energy_centers, energy, angle, distance)

\* C5: for the discrete-energy lookups and any fixed (angle, distance), an
\* energy below the smallest table energy gives the result of the smallest
\* energy and an energy above the largest gives the result of the largest.
C5_EnergyClamped ==
    (op \in {"DiscreteEnergyTableQuery.query",
             "DiscreteEnergy3DTableBuilder.query_3d_table"})
    => /\ FLt(args[1], energy_centers[0])
            => outcome = DiscreteLookup(energy_centers[0], args[2], args[3])
       /\ FGt(args[1], Last(energy_centers))
            => outcome = DiscreteLookup(Last(energy_centers), args[2], args[3])

\* a query above the largest energy has returned the non-zero value of the
\* last layer, which differs from the first layer's
C5_Witness ==
    /\ op = "DiscreteEnergyTableQuery.query"
    /\ FiniteArgs
    /\ FGt(args[1], Last(energy_centers))
    /\ outcome.status = "returned"
    /\ FGt(outcome.value, Float(0))
    /\ outcome # DiscreteEnergyTableQuery_query(energy_centers[0], args[2], args[3])

\* some coordinate lies strictly outside the edges of its axis
OutsideSomeAxis ==
    \/ FLt(args[1], energy_edges[0]) \/ FGt(args[1], Last(energy_edges))
    \/ FLt(args[2], angle_edges[0]) \/ FGt(args[2], Last(angle_edges))
    \/ FLt(args[3], distance_edges[0]) \/ FGt(args[3], Last(distance_edges))

\* x moved to the nearest point of the axis with these edges
ClampTo(edges, x) ==
    IF FLt(x, edges[0]) THEN edges[0]
    ELSE IF FGt(x, Last(edges)) THEN Last(edges)
    ELSE x

\* the class's interpolation at the given point, range check aside
EdgeInterpolation(energy, angle, distance) ==
    TrilinearAtEdges(energy_bins, angle_bins, distance_bins, energy, angle, distance)

C7_EnergyBlendAtNodes ==
    \A node \in Nodes :
        LET lo == node[1]
            hi == node[1] + 1
        IN  (/\ op = "DiscreteEnergyTableQuery.query"
             /\ hi < energy_bins
             /\ FLt(energy_centers[lo], args[1]) /\ FLt(args[1], energy_centers[hi])
             /\ args[2] = angle_centers[node[2]]
             /\ args[3] = distance_centers[node[3]])
            => LET w == FDiv(FSub(args[1], energy_centers[lo]),
                             FSub(energy_centers[hi], energy_centers[lo]))
               IN  outcome = Returned(FAdd(
                       FMul(FSub(Float(1), w), histogram[lo][node[2]][node[3]]),
                       FMul(w, histogram[hi][node[2]][node[3]])))

\* a query a quarter of the way from the first layer to the second, at the last
\* (angle, distance) node, has returned the blend of two different values
C7_Witness ==
    /\ op = "DiscreteEnergyTableQuery.query"
    /\ angle_bins >= 2 /\ distance_bins >= 2
    /\ args = <<FDiv(FAdd(FMul(Float(3), energy_centers[0]), energy_centers[1]), Float(4)),
                Last(angle_centers), Last(distance_centers)>>
    /\ histogram[0][angle_bins - 1][distance_bins - 1]
         # histogram[1][angle_bins - 1][distance_bins - 1]
    /\ outcome = Returned(FAdd(
           FMul(Frac(3, 4), histogram[0][angle_bins - 1][distance_bins - 1]),
           FMul(Frac(1, 4), histogram[1][angle_bins - 1][distance_bins - 1])))

\* C8: query_batch(es, as, ds) returns an array whose element i equals
\* query(es[i], as[i], ds[i]).
C8_BatchIsElementwise ==
    (op = "DiscreteEnergyTableQuery.query_batch" /\ outcome.status = "returned")
    => \A i \in DOMAIN args[1] :
           Returned(outcome.value[i])
             = DiscreteEnergyTableQuery_query(args[1][i], args[2][i], args[3][i])

\* C9: on a loaded table with at least one bin on every axis a query with
\* finite coordinates returns a value and raises no exception.
C9_FiniteQueryReturns ==
    (op \in {"PhotonTableQuery.query", "DiscreteEnergyTableQuery.query"} /\ FiniteArgs)
    => outcome.status = "returned"

\* C10: a query with a NaN or infinite coordinate raises InvalidQueryError.
C10_NonFiniteRejected ==
    (op \in {"PhotonTableQuery.query", "DiscreteEnergyTableQuery.query"} /\ ~FiniteArgs)
    => outcome = Raised("InvalidQueryError")

----------------------------------------------------------------------------
(* Properties of the table builds *)

\* a file from which process_single_file returns a histogram
HasHistogram(file) == file.exists /\ file.has_hist

\* the positions of the files that hand a histogram to the build
Ingested == {i \in DOMAIN sources : HasHistogram(sources[i])}

\* the per-event table of a histogram-normalising builder
PerEventTable ==
    IF builder.class = "AveragePhotonTable3D" THEN builder.average_table
    ELSE builder.normalized_table

\* an all-zero layer of the builder's tables
ZeroLayer ==
    [j \in 0..(builder.angle_bins - 1) |-> [m \in 0..(builder.distance_bins - 1) |->
        Float(0)]]

\* C11: a lookup on a table object whose histogram was never built is an
\* error (NotFrozenError) and returns no number.
C11_UnbuiltQueryIsError ==
    (/\ op \in {"PhotonTable3D.query_interpolate", "PhotonTable3D.query_table"}
     /\ histogram = None)
    => outcome = Raised("NotFrozenError")

\* C12: after a per-event-average build (AveragePhotonTable3D,
\* NormalizedPhotonTable3D), every bin of every ingested layer holds the
\* layer's raw count divided by the number of events recorded for that
\* energy (the IEEE quotient when that number is 0).
C12_PerEventAverage ==
    (/\ builder.class \in {"AveragePhotonTable3D", "NormalizedPhotonTable3D"}
     /\ builder.pc = "built")
    => \A i \in Ingested :
         \A j \in 0..(builder.angle_bins - 1), m \in 0..(builder.distance_bins - 1) :
            PerEventTable[i][j][m] =
                FDiv(builder.photon_table[i][j][m],
                     Float(builder.events_per_file[builder.energy_values[i]]))

\* a finished average build whose first layer holds 10 photons of 10 events in
\* one bin, stored as 1 photon per event
C12_Witness ==
    /\ builder.class = "AveragePhotonTable3D"
    /\ builder.pc = "built"
    /\ 0 \in Ingested
    /\ builder.events_per_file[100] = 10
    /\ builder.photon_table[0][0][0] = Float(10)
    /\ builder.average_table[0][0][0] = Float(1)

\* C13: after a density build, every bin of every ingested layer is 0 where
\* the bin area is below 1e-10 and the per-event average divided by the bin
\* area elsewhere, and no density entry is infinite or NaN.
C13_DensityScaledAndFinite ==
    (/\ builder.class = "DensityPhotonTable3D"
     /\ builder.pc = "built")
    => \A i \in Ingested :
         \A j \in 0..(builder.angle_bins - 1), m \in 0..(builder.distance_bins - 1) :
            /\ BelowEpsilon(builder.bin_areas[j][m])
                => builder.density_table[i][j][m] = Float(0)
            /\ ~BelowEpsilon(builder.bin_areas[j][m])
                => builder.density_table[i][j][m] =
                       FDiv(builder.normalized_table[i][j][m], builder.bin_areas[j][m])
            /\ IsFinite(builder.density_table[i][j][m])

\* C14: after a build, the energy axis is exactly the sorted energies of the
\* files that were ingested: a missing file or one without the histogram has
\* no layer.
C14_EnergyAxisIsIngested ==
    (/\ builder.class \in {"AveragePhotonTable3D", "DensityPhotonTable3D"}
     /\ builder.pc = "built")
    => /\ Size(builder.energy_values) = Cardinality(Ingested)
       /\ {builder.energy_values[k] : k \in DOMAIN builder.energy_values}
              = {sources[i].energy : i \in Ingested}

\* C15: a file whose tree records zero events yields no layer: nothing of it
\* is stored, and every stored layer has n_events > 0.
C15_ZeroEventsDropped ==
    (/\ builder.class \in {"AveragePhotonTable3D", "DensityPhotonTable3D"}
     /\ builder.pc = "built")
    => \A i \in Ingested :
         EventsIn(sources[i]) = 0
            => /\ builder.photon_table[i] = ZeroLayer
               /\ PerEventTable[i] = ZeroLayer

\* C16: when some file is ingested, the build completes and its angle and
\* distance axes are those of the first ingested file, also when the first
\* file of the list is missing (stated for builds whose histograms all have
\* the shape of the table).
C16_GeometryOfFirstIngested ==
    (/\ builder.class \in {"AveragePhotonTable3D", "DensityPhotonTable3D"}
     /\ builder.pc \in {"built", "raised"}
     /\ Ingested # {}
     /\ \A i \in Ingested : sources[i].kind \notin {"other_shape", "single_bin"})
    => /\ builder.pc = "built"
       /\ builder.bin_edges # None
       /\ LET first == CHOOSE i \in Ingested : \A h \in Ingested : i <= h
          IN  /\ builder.bin_edges[2] = sources[first].edges[1]
              /\ builder.bin_edges[3] = sources[first].edges[2]

Successful ==
    {i \in DOMAIN sources :
        HasHistogram(sources[i]) /\ sources[i].num_entries # 0}

\* the later histograms of a multi-energy build whose shape differs from the
\* table's: positions in root_files
MultiEnergyMismatched ==
    {k \in 1..(Size(find_root_files) - 1) :
        /\ find_root_files[k].has_hist
        /\ Shape2(find_root_files[k].counts) # <<builder.angle_bins, builder.distance_bins>>}

\* C17: a later layer whose histogram shape differs from the table's is
\* dropped and the build goes on: the build ends without an exception and
\* the table has no layer for the dropped energy.
C17_MismatchDropped ==
    /\ (/\ builder.class = "DiscreteEnergy3DTableBuilder"
        /\ builder.pc \in {"built", "raised"})
        => \A e \in DOMAIN builder.energy_histograms :
              Shape2(builder.energy_histograms[e])
                    # <<builder.angle_bins, builder.distance_bins>>
                => /\ builder.pc = "built"
                   /\ \A i \in DOMAIN builder.energies : builder.energies[i] # e
    /\ (/\ builder.class = "MultiEnergyPhotonTable3D"
        /\ builder.pc \in {"built", "raised"}
        /\ builder.bin_edges # None)
        => \A k \in MultiEnergyMismatched :
              /\ builder.pc = "built"
              /\ \A i \in DOMAIN builder.energy_values :
                    builder.energy_values[i] # find_root_files[k].energy

\* C18: of the M files found, the N that are ingested (with the histogram
\* and at least one event) are reported as N of M, and the table has exactly
\* N layers.
C18_ReportsIngested ==
    (/\ builder.class = "DiscreteEnergy3DTableBuilder"
     /\ builder.pc \in {"loaded", "built"})
    => /\ builder.report = <<Cardinality(Successful),
                             Cardinality({i \in DOMAIN sources : sources[i].exists})>>
       /\ builder.pc = "built" => Size(builder.table_3d) = Cardinality(Successful)

\* the files create_2d_table_from_file makes a table of: on disk, with a tree
\* of at least one event
WithPhotons == {i \in DOMAIN sources : sources[i].exists /\ sources[i].num_entries > 0}

\* C19: the build command exits with status 0 and writes a table when at
\* least one layer was ingested, exactly one included, and exits with status
\* 1 writing no table when none was.
C19_ExitStatus ==
    (builder.class = "DiscreteEnergyTableBuilder" /\ builder.pc = "exited")
    => /\ WithPhotons # {} => (builder.exit = 0 /\ builder.written # None)
       /\ WithPhotons = {} => (builder.exit = 1 /\ builder.written = None)


----------------------------------------------------------------------------
(* Properties of the persisted tables *)

\* the sum of all entries of a 3D array
TableSum(table) ==
    SumOver([k \in DOMAIN table |-> LayerSum(table[k])], DOMAIN table)

\* the command of create_discrete_energy_table wrote its table
Persisted ==
    /\ builder.class = "DiscreteEnergyTableBuilder"
    /\ builder.pc = "exited"
    /\ builder.written # None

\* C21: the total_photons recorded in the metadata of a persisted raw-count
\* table equals the sum of all entries of its 3D values array, also when an
\* event holds more photons than the sampling limit or photons lie beyond
\* the distance cut.
C21_Conservation ==
    Persisted
    => TableSum(builder.written.photon_histogram_3d_discrete)
           = Float(builder.written.table_metadata_discrete.total_photons)

\* an axis as the specification defines one: edges strictly increasing, one
\* center per bin, each the midpoint of the bin's edges
WellFormedAxis(edges, centers) ==
    /\ \A i \in DOMAIN edges : i + 1 \in DOMAIN edges => FLt(edges[i], edges[i + 1])
    /\ Size(centers) = Size(edges) - 1
    /\ centers = Midpoints(edges)

\* C22: on each of the three axes of every persisted table the edges are
\* strictly increasing, there is one center less than there are edges, and
\* each center is the midpoint of its two adjacent edges.
C22_AxesWellFormed ==
    /\ (builder.class = "DensityPhotonTable3D" /\ builder.pc = "saved")
        => /\ WellFormedAxis(Floats(builder.h5.energy_edges),
                             Floats(builder.h5.energy_centers))
           /\ WellFormedAxis(builder.h5.angle_edges, builder.h5.angle_centers)
           /\ WellFormedAxis(builder.h5.distance_edges, builder.h5.distance_centers)
    /\ Persisted
        => /\ WellFormedAxis(Floats(builder.written.table_metadata_discrete.energy_edges),
                             Floats(builder.written.table_metadata_discrete.energy_centers))
           /\ WellFormedAxis(builder.written.table_metadata_discrete.angle_edges,
                             builder.written.table_metadata_discrete.angle_centers)
           /\ WellFormedAxis(builder.written.table_metadata_discrete.distance_edges,
                             builder.written.table_metadata_discrete.distance_centers)

\* edges[i] < edges[i + 1] throughout
StrictlyIncreasing(edges) ==
    \A i \in DOMAIN edges : i + 1 \in DOMAIN edges => FLt(edges[i], edges[i + 1])

\* C23: building a regular axis from (min, max, n_bins) with min >= max (as
\* when every photon has the same energy or angle) fails with
\* InvalidAxisError, and no table with zero-width bins is ever produced.
C23_DegenerateAxisRejected ==
    /\ table_kind = "in_memory"
        => /\ StrictlyIncreasing(energy_edges)
           /\ StrictlyIncreasing(angle_edges)
           /\ StrictlyIncreasing(distance_edges)
    /\ (/\ op = "PhotonTable3D.create_histogram"
        /\ sources[0].kind = "ok")
        => outcome = Raised("InvalidAxisError")

\* the positions of the files on disk whose ingestion yields no layer: files
\* without the histogram for the table_generation builders, files whose tree
\* is unreadable or empty for DiscreteEnergyTableBuilder
YieldsNoLayer ==
    IF builder.class = "DiscreteEnergyTableBuilder"
    THEN {i \in DOMAIN sources :
            sources[i].exists /\ (sources[i].num_entries < 0 \/ sources[i].events = <<>>)}
    ELSE {i \in DOMAIN sources : sources[i].exists /\ ~sources[i].has_hist}

\* C24: ingesting a source that yields no layer (histogram absent or read
\* error) leaves the builder's events-per-energy mapping and its layer
\* storage as they were: after the build they hold nothing for its energy.
C24_NoLayerNoTrace ==
    /\ (/\ builder.class \in {"AveragePhotonTable3D", "DensityPhotonTable3D"}
        /\ builder.pc = "built")
        => \A i \in YieldsNoLayer :
                /\ sources[i].energy \notin DOMAIN builder.events_per_file
                /\ builder.photon_table[i] = ZeroLayer
    /\ (/\ builder.class = "DiscreteEnergyTableBuilder"
        /\ builder.pc = "exited")
        => \A i \in YieldsNoLayer :
                /\ sources[i].energy \notin DOMAIN builder.energy_tables
                /\ sources[i].energy \notin DOMAIN builder.energy_metadata

\* C25: two builds run on the same source files with the same configuration
\* produce identical tables (values, axes and metadata), also when an event
\* holds more photons than the sampling limit: what a run of the command
\* writes is what any other run on the same files writes.
C25_Reproducible ==
    [][(/\ builder.class = "DiscreteEnergyTableBuilder"
        /\ builder.pc = "constructed"
        /\ builder'.pc = "exited")
       => \A rng \in RandomStates : builder'.written = main(builder, rng).written]_vars

Answer ==
    IF op = "PhotonTable3DQuery.query_interpolate"
    THEN PhotonTable3DQuery_query_interpolate(args[1], args[2], args[3])
    ELSE IF op = "PhotonTable3DQuery.query_nearest"
    THEN PhotonTable3DQuery_query_nearest(args[1], args[2], args[3])
    ELSE IF op = "PhotonTable3DQuery.get_statistics"
    THEN PhotonTable3DQuery_get_statistics
    ELSE IF op = "DiscreteEnergyTableQuery.query"
    THEN DiscreteEnergyTableQuery_query(args[1], args[2], args[3])
    ELSE IF op = "DiscreteEnergyTableQuery.query_batch"
    THEN DiscreteEnergyTableQuery_query_batch(args[1], args[2], args[3])
    ELSE IF op = "DiscreteEnergyTableQuery.get_available_energies"
    THEN DiscreteEnergyTableQuery_get_available_energies
    ELSE IF op = "DiscreteEnergyTableQuery.get_parameter_ranges"
    THEN DiscreteEnergyTableQuery_get_parameter_ranges
    ELSE NoOutcome

StoredLayer(energy) ==
    Broadcast(sources[builder.energy_files[energy]].counts,
              builder.angle_bins, builder.distance_bins)

\* C28: after DiscreteEnergy3DTableBuilder.create_3d_table returned a table,
\* the returned energies are the energies of the loaded histograms in
\* strictly increasing order, layer k is the histogram of energies[k], and
\* it sums to 1 when that histogram had a positive total and is all zero
\* when its total was 0
C28_LayersNormalizedAndOrdered ==
    (/\ builder.class = "DiscreteEnergy3DTableBuilder"
     /\ builder.pc \in {"built", "saved"})
        => /\ DOMAIN builder.table_3d = DOMAIN builder.energies
           /\ {builder.energies[k] : k \in DOMAIN builder.energies}
                = DOMAIN builder.energy_histograms
           /\ \A k \in DOMAIN builder.energies, h \in DOMAIN builder.energies :
                k < h => builder.energies[k] < builder.energies[h]
           /\ \A k \in DOMAIN builder.energies :
                /\ FGt(LayerSum(StoredLayer(builder.energies[k])), Float(0))
                    => /\ LayerSum(builder.table_3d[k]) = Float(1)
                       /\ \A j \in DOMAIN builder.table_3d[k] :
                            \A m \in DOMAIN builder.table_3d[k][j] :
                                FMul(builder.table_3d[k][j][m],
                                     LayerSum(StoredLayer(builder.energies[k])))
                                    = StoredLayer(builder.energies[k])[j][m]
                /\ LayerSum(StoredLayer(builder.energies[k])) = Float(0)
                    => \A j \in DOMAIN builder.table_3d[k] :
                            \A m \in DOMAIN builder.table_3d[k][j] :
                                builder.table_3d[k][j][m] = Float(0)

\* a returned table of three layers, one of them of a histogram without
\* photons and two of histograms with photons
C28_Witness ==
    /\ builder.class = "DiscreteEnergy3DTableBuilder"
    /\ builder.pc = "built"
    /\ Size(builder.energies) = MaxSources
    /\ \E k \in DOMAIN builder.energies :
            LayerSum(StoredLayer(builder.energies[k])) = Float(0)
    /\ \E k \in DOMAIN builder.energies, h \in DOMAIN builder.energies :
            /\ k # h
            /\ LayerSum(builder.table_3d[k]) = Float(1)
            /\ LayerSum(builder.table_3d[h]) = Float(1)

\* the energies that two or more of the files on disk map to
SharedEnergies ==
    {e \in {sources[i].energy : i \in DOMAIN sources} :
        Cardinality({i \in DOMAIN sources : sources[i].exists /\ sources[i].energy = e}) >= 2}

\* the file processed last among those of an energy
LastOf(e) ==
    sources[CHOOSE i \in DOMAIN sources :
                /\ sources[i].exists /\ sources[i].energy = e
                /\ \A h \in DOMAIN sources :
                        sources[h].exists /\ sources[h].energy = e => h <= i]

\* C29: when two files of a build map to the same energy, a table that is
\* built has exactly one layer for that energy, and the layer is that of the
\* file processed last, not the sum with, or the layer of, an earlier file
C29_LastSourceWins ==
    /\ (/\ builder.class = "DiscreteEnergy3DTableBuilder"
        /\ builder.pc \in {"built", "saved"})
        => \A e \in SharedEnergies :
            /\ Cardinality({k \in DOMAIN builder.energies : builder.energies[k] = e}) = 1
            /\ LastOf(e).has_hist
            /\ \A k \in DOMAIN builder.energies :
                builder.energies[k] = e
                    => builder.table_3d[k]
                        = NormalizeLayers([h \in {0} |->
                            Broadcast(LastOf(e).counts, builder.angle_bins,
                                      builder.distance_bins)])[0]
    /\ (/\ builder.class = "DiscreteEnergyTableBuilder"
        /\ builder.pc = "exited"
        /\ builder.written # None)
        => \A e \in SharedEnergies :
            /\ Cardinality({k \in DOMAIN builder.written.table_metadata_discrete.energy_centers :
                    builder.written.table_metadata_discrete.energy_centers[k] = e}) = 1
            /\ \A k \in DOMAIN builder.written.table_metadata_discrete.energy_centers :
                builder.written.table_metadata_discrete.energy_centers[k] = e
                    => \E left_out \in Draws(LastOf(e)) :
                        \E tables \in {create_2d_table_from_file(
                                        DiscreteEnergyTableBuilder(builder.angle_bins,
                                                                   builder.distance_bins),
                                        LastOf(e), left_out).energy_tables} :
                            /\ e \in DOMAIN tables
                            /\ builder.written.photon_histogram_3d_discrete[k]
                                = Broadcast(tables[e], builder.angle_bins,
                                            builder.distance_bins)

\* C30: SirenDatasetCreator.load_table on the directory that a successful
\* DensityPhotonTable3D.save_table wrote to finds every file and array it
\* reads, and returns
C30_DensityArtifactLoads ==
    op = "SirenDatasetCreator.load_table" => outcome.status = "returned"

====
